---- MODULE Spec2Model ----
(***************************************************************************)
(* A model of liteconf: the two deep-merge implementations                *)
(* (merger.deep_merge, core.deep_merge), the placeholder resolvers,        *)
(* LayeredConfigLoader.load and ConfigManager.load.                        *)
(*                                                                         *)
(* Python objects live in a heap (a sequence of objects, an address is an  *)
(* index), so that aliasing, in-place mutation and copy.deepcopy are       *)
(* visible.  A value is a scalar or a reference:                           *)
(*   [t |-> "int", i |-> n]   [t |-> "str", s |-> <<chars>>]               *)
(*   [t |-> "ref", a |-> address]                                          *)
(* a heap object is a dict [t |-> "map", m |-> key -> value] or a list     *)
(* [t |-> "seq", q |-> <<values>>].  A tree (the content of an object,     *)
(* compared with ==) has the same shape with the references followed.      *)
(***************************************************************************)
EXTENDS Integers, Sequences, FiniteSets, TLC

\* a caller of deep_merge
VARIABLES heap, base, overlay, merged, impl, pc,
          baseBefore, overlayBefore, mergedAtReturn
\* a call of a placeholder resolver on one string
VARIABLES parts, text, lookup, resolver, rpc, resolved
\* the process: os.environ and the file system (existing directories, files)
VARIABLES osEnviron, fsDirs, fsFiles
\* a LayeredConfigLoader and one call of its load(overrides=...)
VARIABLES layers, env, env_var, overrides, lpc, ordered_dirs, files_loaded,
          lmerged, beforeOverrides, lresolved, lresult
\* a ConfigManager and one call of its load()
VARIABLES sources, interpolate_env, environ, mpc, payload, mresolved, mresult,
          validators, called

\* one call of load() on a DirectorySource or an EnvSource
VARIABLES source, spc, sresult, visit
\* a ConfigView and one call of its get(dotted_path, default, coerce=...)
VARIABLES vdata, dotted_path, vdefault, coerce, vpc, vresult
\* the objects of a caller that calls load() and reload() repeatedly, and
\* what the calls returned
VARIABLES rheap, returned, mutations
\* one call of _inject, _assign or _assign_dotted on a mapping
VARIABLES afn, atarget, akeys, avalue, apc, aresult
\* one call of a placeholder resolver on a tree of objects
VARIABLES xfn, xshape, xparts, xlookup, xheap, xdata, xpc, xresult

varsMerge == <<heap, base, overlay, merged, impl, pc,
               baseBefore, overlayBefore, mergedAtReturn>>
varsResolve == <<parts, text, lookup, resolver, rpc, resolved>>
varsProcess == <<osEnviron, fsDirs, fsFiles>>
varsLoader == <<layers, env, env_var, overrides, lpc, ordered_dirs, files_loaded,
                lmerged, beforeOverrides, lresolved, lresult>>
varsManager == <<sources, interpolate_env, environ, mpc, payload, mresolved, mresult,
                 validators, called>>
varsLoad == <<varsProcess, varsLoader, varsManager>>

varsSources == <<source, spc, sresult, visit>>
varsView == <<vdata, dotted_path, vdefault, coerce, vpc, vresult>>
varsReload == <<rheap, returned, mutations>>
varsAssign == <<afn, atarget, akeys, avalue, apc, aresult>>
varsExpand == <<xfn, xshape, xparts, xlookup, xheap, xdata, xpc, xresult>>
varsOther == <<varsSources, varsView, varsReload, varsAssign, varsExpand>>

vars == <<varsMerge, varsResolve, varsLoad, varsOther>>

-----------------------------------------------------------------------------
(* Values and trees *)

Num(n) == [t |-> "int", i |-> n]
Str(s) == [t |-> "str", s |-> s]
Ref(a) == [t |-> "ref", a |-> a]
Dict(f) == [t |-> "map", m |-> f]
List(q) == [t |-> "seq", q |-> q]
None == [t |-> "none"]

IsMap(v) == v.t = "map"
IsSeq(v) == v.t = "seq"
IsRef(v) == v.t = "ref"

\* dict item assignment d[k] = v on the items of a dict
Put(f, k, v) == [x \in (DOMAIN f) \cup {k} |-> IF x = k THEN v ELSE f[x]]
\* del d[k]
Del(f, k) == [x \in (DOMAIN f) \ {k} |-> f[x]]

\* isinstance(v, Mapping) for a value held in the heap h
IsMapRef(h, v) == IsRef(v) /\ IsMap(h[v.a])

\* The tree a value stands for: its content at every depth.
RECURSIVE Val(_, _)
Val(h, v) ==
    IF ~IsRef(v) THEN v
    ELSE LET o == h[v.a] IN
         IF IsMap(o) THEN Dict([k \in DOMAIN o.m |-> Val(h, o.m[k])])
         ELSE List([n \in DOMAIN o.q |-> Val(h, o.q[n])])

\* The addresses of the objects a value reaches (itself included).
RECURSIVE Reach(_, _)
Reach(h, v) ==
    IF ~IsRef(v) THEN {}
    ELSE LET o == h[v.a] IN
         {v.a} \cup
         (IF IsMap(o) THEN UNION {Reach(h, o.m[k]) : k \in DOMAIN o.m}
          ELSE UNION {Reach(h, o.q[n]) : n \in DOMAIN o.q})

\* Allocation of a tree as fresh heap objects: [h |-> heap, v |-> value].
RECURSIVE Build(_, _), BuildMap(_, _, _, _), BuildSeq(_, _, _, _)
Build(h, tr) ==
    IF IsMap(tr) THEN
        LET r == BuildMap(h, tr.m, DOMAIN tr.m, <<>>)
        IN  [h |-> Append(r.h, Dict(r.m)), v |-> Ref(Len(r.h) + 1)]
    ELSE IF IsSeq(tr) THEN
        LET r == BuildSeq(h, tr.q, 1, <<>>)
        IN  [h |-> Append(r.h, List(r.q)), v |-> Ref(Len(r.h) + 1)]
    ELSE [h |-> h, v |-> tr]
BuildMap(h, f, ks, acc) ==
    IF ks = {} THEN [h |-> h, m |-> acc]
    ELSE LET k == CHOOSE x \in ks : TRUE
             r == Build(h, f[k])
         IN  BuildMap(r.h, f, ks \ {k}, Put(acc, k, r.v))
BuildSeq(h, q, n, acc) ==
    IF n > Len(q) THEN [h |-> h, q |-> acc]
    ELSE LET r == Build(h, q[n])
         IN  BuildSeq(r.h, q, n + 1, Append(acc, r.v))

-----------------------------------------------------------------------------
(* copy.deepcopy and the two deep_merge functions *)

\* deepcopy that returns its argument: the reference is shared, not copied.
deepcopy_shared(h, v) == [h |-> h, v |-> v]

\* copy.deepcopy(v): scalars are returned as they are, a dict or a list is
\* copied into a new object whose items are deep copies.
RECURSIVE deepcopy(_, _), deepcopy_dict(_, _, _, _), deepcopy_list(_, _, _, _)
deepcopy(h, v) ==
    IF ~IsRef(v) THEN [h |-> h, v |-> v]
    ELSE LET o == h[v.a] IN
         IF IsMap(o) THEN
             LET r == deepcopy_dict(h, o.m, DOMAIN o.m, <<>>)
             IN  [h |-> Append(r.h, Dict(r.m)), v |-> Ref(Len(r.h) + 1)]
         ELSE
             LET r == deepcopy_list(h, o.q, 1, <<>>)
             IN  [h |-> Append(r.h, List(r.q)), v |-> Ref(Len(r.h) + 1)]
deepcopy_dict(h, f, ks, acc) ==
    IF ks = {} THEN [h |-> h, m |-> acc]
    ELSE LET k == CHOOSE x \in ks : TRUE
             r == deepcopy(h, f[k])
         IN  deepcopy_dict(r.h, f, ks \ {k}, Put(acc, k, r.v))
deepcopy_list(h, q, n, acc) ==
    IF n > Len(q) THEN [h |-> h, q |-> acc]
    ELSE LET r == deepcopy(h, q[n])
         IN  deepcopy_list(r.h, q, n + 1, Append(acc, r.v))

\* merger.deep_merge working on base itself instead of on a copy of it.
RECURSIVE merger_loop_on_base(_, _, _, _)
merger_loop_on_base(h, ma, oa, ks) ==
    IF ks = {} THEN [h |-> h, v |-> Ref(ma)]
    ELSE LET key == CHOOSE x \in ks : TRUE
             value == h[oa].m[key]
             mm == h[ma].m
             r == IF key \in DOMAIN mm /\ IsMapRef(h, mm[key]) /\ IsMapRef(h, value)
                  THEN merger_loop_on_base(h, mm[key].a, value.a, DOMAIN h[value.a].m)
                  ELSE deepcopy(h, value)
         IN  merger_loop_on_base([r.h EXCEPT ![ma] = Dict(Put(r.h[ma].m, key, r.v))],
                                 ma, oa, ks \ {key})
merger_deep_merge_on_base(h, b, o) == merger_loop_on_base(h, b.a, o.a, DOMAIN h[o.a].m)

\* merger.deep_merge(base, override): merged = deepcopy(dict(base)), then
\* for each key of override either merged[key] = deep_merge(merged[key],
\* value) or merged[key] = deepcopy(value); returns merged.
RECURSIVE merger_deep_merge(_, _, _), merger_loop(_, _, _, _)
merger_deep_merge(h, b, o) ==
    LET c == deepcopy(h, b)
    IN  merger_loop(c.h, c.v.a, o.a, DOMAIN h[o.a].m)
merger_loop(h, ma, oa, ks) ==
    IF ks = {} THEN [h |-> h, v |-> Ref(ma)]
    ELSE LET key == CHOOSE x \in ks : TRUE
             value == h[oa].m[key]
             mm == h[ma].m
             r == IF key \in DOMAIN mm /\ IsMapRef(h, mm[key]) /\ IsMapRef(h, value)
                  THEN merger_deep_merge(h, mm[key], value)
                  ELSE deepcopy(h, value)
         IN  merger_loop([r.h EXCEPT ![ma] = Dict(Put(r.h[ma].m, key, r.v))],
                         ma, oa, ks \ {key})

\* core.deep_merge without the recursion: every overlay value replaces.
RECURSIVE core_loop_replace(_, _, _, _)
core_loop_replace(h, ba, oa, ks) ==
    IF ks = {} THEN [h |-> h, v |-> Ref(ba)]
    ELSE LET key == CHOOSE x \in ks : TRUE
             r == deepcopy(h, h[oa].m[key])
         IN  core_loop_replace([r.h EXCEPT ![ba] = Dict(Put(r.h[ba].m, key, r.v))],
                               ba, oa, ks \ {key})

\* core.deep_merge(base, overlay): for each key of overlay either
\* deep_merge(base[key], value), on base[key] itself, or
\* base[key] = copy.deepcopy(value); returns base.
RECURSIVE core_deep_merge(_, _, _), core_loop(_, _, _, _)
core_deep_merge(h, b, o) == core_loop(h, b.a, o.a, DOMAIN h[o.a].m)
core_loop(h, ba, oa, ks) ==
    IF ks = {} THEN [h |-> h, v |-> Ref(ba)]
    ELSE LET key == CHOOSE x \in ks : TRUE
             value == h[oa].m[key]
             bm == h[ba].m
         IN  IF key \in DOMAIN bm /\ IsMapRef(h, bm[key]) /\ IsMapRef(h, value)
             THEN core_loop(core_deep_merge(h, bm[key], value).h, ba, oa, ks \ {key})
             ELSE LET r == deepcopy(h, value)
                  IN  core_loop([r.h EXCEPT ![ba] = Dict(Put(r.h[ba].m, key, r.v))],
                                ba, oa, ks \ {key})

-----------------------------------------------------------------------------
(* Strings and the placeholder patterns.  A string is a tuple of          *)
(* characters.                                                             *)

\* The characters of [A-Z0-9_] that the model's strings use.
NameChars == {"A", "B", "0", "_"}

\* s[i..] starts with lit
HasAt(s, i, lit) ==
    /\ i + Len(lit) - 1 <= Len(s)
    /\ SubSeq(s, i, i + Len(lit) - 1) = lit

\* The index after the longest run of [A-Z0-9_] that starts at i.
RECURSIVE NameEnd(_, _)
NameEnd(s, i) == IF i <= Len(s) /\ s[i] \in NameChars THEN NameEnd(s, i + 1) ELSE i

\* The index of the first "}" at or after i, 0 when there is none.
RECURSIVE CloseFrom(_, _)
CloseFrom(s, i) ==
    IF i > Len(s) THEN 0
    ELSE IF s[i] = "}" THEN i ELSE CloseFrom(s, i + 1)

NoMatch == [ok |-> FALSE, name |-> <<>>, hasdefault |-> FALSE, default |-> <<>>, end |-> 0]

\* A match of  \$\{(?P<name>[A-Z0-9_]+)(?:SEP(?P<fallback>[^}]*))?\}  anchored
\* at i; end is the index of the closing brace.  The group is tried first
\* (greedy), [^}]* stops at the first "}".
Match(s, i, sep) ==
    IF ~HasAt(s, i, <<"$", "{">>) THEN NoMatch
    ELSE LET n == NameEnd(s, i + 2)
             c == CloseFrom(s, n + Len(sep))
         IN  IF n = i + 2 THEN NoMatch
             ELSE IF HasAt(s, n, sep) /\ c # 0
             THEN [ok |-> TRUE, name |-> SubSeq(s, i + 2, n - 1), hasdefault |-> TRUE,
                   default |-> SubSeq(s, n + Len(sep), c - 1), end |-> c]
             ELSE IF HasAt(s, n, <<"}">>)
             THEN [ok |-> TRUE, name |-> SubSeq(s, i + 2, n - 1), hasdefault |-> FALSE,
                   default |-> <<>>, end |-> n]
             ELSE NoMatch

\* core.PLACEHOLDER_PATTERN: the fallback follows ":-"
core_PLACEHOLDER_SEP == <<":", "-">>
\* manager.PLACEHOLDER_PATTERN: the default follows ":"
manager_PLACEHOLDER_SEP == <<":">>

\* The outcome of a call: a value, or the exception raised.
Ok(v) == [err |-> "none", name |-> <<>>, v |-> v]
Raise(kind, name) == [err |-> kind, name |-> name, v |-> None]
\* An exception raised while the mapping being assigned into holds tr.
RaiseIn(kind, name, tr) == [err |-> kind, name |-> name, v |-> tr]
Failed(r) == r.err # "none"

\* The repl/replace callbacks: the lookup value if the name is in the
\* lookup, else the fallback if the match has one, else the exception.
repl(m, env_lookup, kind) ==
    IF m.name \in DOMAIN env_lookup THEN Ok(Str(env_lookup[m.name]))
    ELSE IF m.hasdefault THEN Ok(Str(m.default))
    ELSE Raise(kind, m.name)

\* A sub that scans the text of a replacement again: a placeholder at the
\* start of the replacement is replaced by its lookup value.
RECURSIVE sub_rescan(_, _, _, _, _)
sub_rescan(s, i, sep, env_lookup, kind) ==
    IF i > Len(s) THEN Ok(Str(<<>>))
    ELSE LET m == Match(s, i, sep) IN
         IF ~m.ok
         THEN LET rest == sub_rescan(s, i + 1, sep, env_lookup, kind)
              IN  IF Failed(rest) THEN rest ELSE Ok(Str(<<s[i]>> \o rest.v.s))
         ELSE LET r == repl(m, env_lookup, kind)
              IN  IF Failed(r) THEN r
                  ELSE LET again == Match(r.v.s, 1, sep)
                           twice == IF again.ok /\ again.name \in DOMAIN env_lookup
                                    THEN env_lookup[again.name]
                                         \o SubSeq(r.v.s, again.end + 1, Len(r.v.s))
                                    ELSE r.v.s
                           rest == sub_rescan(s, m.end + 1, sep, env_lookup, kind)
                       IN  IF Failed(rest) THEN rest ELSE Ok(Str(twice \o rest.v.s))
\* PATTERN.sub(repl, s) from index i: one left-to-right scan, the text of
\* a replacement is appended and not scanned.
RECURSIVE sub(_, _, _, _, _)
sub(s, i, sep, env_lookup, kind) ==
    IF i > Len(s) THEN Ok(Str(<<>>))
    ELSE LET m == Match(s, i, sep) IN
         IF ~m.ok
         THEN LET rest == sub(s, i + 1, sep, env_lookup, kind)
              IN  IF Failed(rest) THEN rest ELSE Ok(Str(<<s[i]>> \o rest.v.s))
         ELSE LET r == repl(m, env_lookup, kind)
              IN  IF Failed(r) THEN r
                  ELSE LET rest == sub(s, m.end + 1, sep, env_lookup, kind)
                       IN  IF Failed(rest) THEN rest ELSE Ok(Str(r.v.s \o rest.v.s))

\* core.resolve_placeholders on a str: raises LiteConfError
core_resolve_str(s, env_lookup) == sub(s, 1, core_PLACEHOLDER_SEP, env_lookup, "LiteConfError")

\* manager._resolve_value on a str: raises InterpolationError
manager_resolve_value(s, env_lookup) == sub(s, 1, manager_PLACEHOLDER_SEP, env_lookup, "InterpolationError")

-----------------------------------------------------------------------------
(* Trees as values.  The pipelines own their trees exclusively, so they    *)
(* are modelled on the content of the objects; the merges are the heap     *)
(* functions above run on freshly allocated arguments.                     *)

\* merger.deep_merge(b, o) on trees: the content of the returned object.
merger_merge(b, o) ==
    LET rb == Build(<<>>, b)
        ro == Build(rb.h, o)
        r == merger_deep_merge(ro.h, rb.v, ro.v)
    IN  Val(r.h, r.v)

\* core.deep_merge(b, o) on trees: the content of b after the call.
core_merge(b, o) ==
    LET rb == Build(<<>>, b)
        ro == Build(rb.h, o)
        r == core_deep_merge(ro.h, rb.v, ro.v)
    IN  Val(r.h, rb.v)

\* bool(v) is False: None, 0, "", [], {}
Falsy(v) ==
    \/ v = None
    \/ v.t = "int" /\ v.i = 0
    \/ v.t = "str" /\ v.s = <<>>
    \/ v.t = "seq" /\ v.q = <<>>
    \/ v.t = "map" /\ DOMAIN v.m = {}
    \/ v.t = "bool" /\ ~v.b

\* The exception classes: isinstance(exception of class kind, cls)
IsKind(kind, cls) ==
    \/ kind = cls
    \/ /\ cls = "LiteConfError"
       /\ kind \in {"ConfigNotFoundError", "UnsupportedFormatError",
                    "InterpolationError", "ValidationError"}
    \/ cls = "Exception" /\ kind \notin {"none", "KeyboardInterrupt", "SystemExit"}

-----------------------------------------------------------------------------
(* Paths and files.  A path is a tuple of names, a name is a string.  A    *)
(* file is [path |-> path, content |-> the parsed document].               *)

\* The characters of the model's names, in code point order.
CodePointOrder == <<"-", ".", "0", "A", "B", "E", "_", "a", "b", "c", "d", "e",
                    "j", "l", "m", "n", "o", "p", "q", "r", "s", "t", "u",
                    "x", "y">>
CodePoint(c) == CHOOSE i \in DOMAIN CodePointOrder : CodePointOrder[i] = c

\* str < str
RECURSIVE StrLess(_, _)
StrLess(a, b) ==
    IF b = <<>> THEN FALSE
    ELSE IF a = <<>> THEN TRUE
    ELSE IF Head(a) # Head(b) THEN CodePoint(Head(a)) < CodePoint(Head(b))
    ELSE StrLess(Tail(a), Tail(b))

\* PurePath.__lt__: the tuples of parts compared part by part
RECURSIVE PathLess(_, _)
PathLess(a, b) ==
    IF b = <<>> THEN FALSE
    ELSE IF a = <<>> THEN TRUE
    ELSE IF Head(a) # Head(b) THEN StrLess(Head(a), Head(b))
    ELSE PathLess(Tail(a), Tail(b))

\* sorted(files): by path
RECURSIVE sorted(_)
sorted(fs) ==
    IF fs = {} THEN <<>>
    ELSE LET f == CHOOSE x \in fs : \A y \in fs \ {x} : PathLess(x.path, y.path)
         IN  <<f>> \o sorted(fs \ {f})

\* name.rfind("."), 0 when there is no dot
RECURSIVE rfind_dot(_, _)
rfind_dot(name, i) ==
    IF i = 0 THEN 0 ELSE IF name[i] = "." THEN i ELSE rfind_dot(name, i - 1)

\* PurePath.suffix and PurePath.stem of a file name: the name is split at its
\* last dot unless that dot is the first or the last character.
suffix(name) ==
    LET i == rfind_dot(name, Len(name))
    IN  IF 1 < i /\ i < Len(name) THEN SubSeq(name, i, Len(name)) ELSE <<>>
stem(name) ==
    LET i == rfind_dot(name, Len(name))
    IN  IF 1 < i /\ i < Len(name) THEN SubSeq(name, 1, i - 1) ELSE name

\* str.lower and str.upper on the model's characters
UpperCase == <<"A", "B", "E", "F", "N", "O", "P", "R", "S", "T", "U", "X", "Y">>
LowerCase == <<"a", "b", "e", "f", "n", "o", "p", "r", "s", "t", "u", "x", "y">>
Recase(c, from, to) ==
    IF \E i \in DOMAIN from : from[i] = c
    THEN to[CHOOSE i \in DOMAIN from : from[i] = c] ELSE c
lower(str) == [i \in DOMAIN str |-> Recase(str[i], UpperCase, LowerCase)]
upper(str) == [i \in DOMAIN str |-> Recase(str[i], LowerCase, UpperCase)]

YML == <<".", "y", "m", "l">>
YAML == <<".", "y", "a", "m", "l">>
JSON == <<".", "j", "s", "o", "n">>
TOML == <<".", "t", "o", "m", "l">>

IsPrefix(d, path) == Len(d) <= Len(path) /\ SubSeq(path, 1, Len(d)) = d

\* directory.rglob("*") filtered by is_file(): the files below the directory
rglob(files, directory) ==
    {f \in files : IsPrefix(directory, f.path) /\ Len(f.path) > Len(directory)}

\* An enumeration that keeps files of every suffix.
_iter_config_files_any_suffix(files, directory) == rglob(files, directory)

\* LayeredConfigLoader._iter_config_files
_iter_config_files(files, directory) ==
    {f \in rglob(files, directory) :
        lower(suffix(f.path[Len(f.path)])) \in {YML, YAML, JSON, TOML}}

\* LayeredConfigLoader._load_file: the parsed document, {} for a YAML
\* document that is falsy
_load_file(f) ==
    IF lower(suffix(f.path[Len(f.path)])) \in {YML, YAML} /\ Falsy(f.content)
    THEN Dict(<<>>) ELSE f.content

\* LayeredConfigLoader._derive_key_path: the directories between the layer
\* root and the file, then the stem of the file name
_derive_key_path(layer_root, path) ==
    LET relative == SubSeq(path, Len(layer_root) + 1, Len(path))
    IN  IF relative = <<>> THEN <<>>
        ELSE SubSeq(relative, 1, Len(relative) - 1) \o <<stem(relative[Len(relative)])>>

\* LayeredConfigLoader._inject below the root: cur is what `current` refers
\* to.  setdefault returns an existing value whatever its type; on a
\* non-mapping the next setdefault raises AttributeError and the final
\* membership test or item assignment raises TypeError.  On an exception v
\* is what the mapping holds.
RECURSIVE inject_at(_, _, _)
inject_at(cur, key_path, value) ==
    IF Len(key_path) = 1 THEN
        LET leaf == key_path[1] IN
        IF ~IsMap(cur) THEN RaiseIn("TypeError", leaf, cur)
        ELSE IF leaf \in DOMAIN cur.m /\ IsMap(cur.m[leaf]) /\ IsMap(value)
        THEN Ok(Dict(Put(cur.m, leaf, core_merge(cur.m[leaf], value))))
        ELSE Ok(Dict(Put(cur.m, leaf, value)))
    ELSE
        LET part == key_path[1] IN
        IF ~IsMap(cur) THEN RaiseIn("AttributeError", part, cur)
        ELSE LET child == IF part \in DOMAIN cur.m THEN cur.m[part] ELSE Dict(<<>>)
                 r == inject_at(child, Tail(key_path), value)
             IN  [err |-> r.err, name |-> r.name, v |-> Dict(Put(cur.m, part, r.v))]

\* LayeredConfigLoader._inject(target, key_path, value)
_inject(target, key_path, value) ==
    IF key_path = <<>> THEN
        IF IsMap(value) THEN Ok(core_merge(target, value))
        ELSE RaiseIn("ValueError", <<>>, target)
    ELSE inject_at(target, key_path, value)

\* LayeredConfigLoader._expand_layers: env_name = self.env or
\* os.getenv(self.env_var); layer, then layer / env_name if env_name
env_name(self_env, var, process_env) ==
    IF ~Falsy(self_env) THEN self_env
    ELSE IF var \in DOMAIN process_env THEN Str(process_env[var]) ELSE None
\* An expansion that puts layer / env_name before the layer.
RECURSIVE expand_env_first(_, _)
expand_env_first(ls, name) ==
    IF ls = <<>> THEN <<>>
    ELSE (IF ~Falsy(name) THEN <<Head(ls) \o <<name.s>>>> ELSE <<>>) \o <<Head(ls)>>
         \o expand_env_first(Tail(ls), name)
RECURSIVE expand(_, _)
expand(ls, name) ==
    IF ls = <<>> THEN <<>>
    ELSE <<Head(ls)>> \o (IF ~Falsy(name) THEN <<Head(ls) \o <<name.s>>>> ELSE <<>>)
         \o expand(Tail(ls), name)
_expand_layers(ls, self_env, var, process_env) ==
    expand(ls, env_name(self_env, var, process_env))

\* The files load() reads, in order: for each directory of the list that
\* exists, its config files sorted; each with the directory it was found
\* from.
RECURSIVE files_in_order(_, _, _)
files_in_order(dirs, existing, files) ==
    IF dirs = <<>> THEN <<>>
    ELSE (IF Head(dirs) \in existing
          THEN LET fs == sorted(_iter_config_files(files, Head(dirs)))
               IN  [i \in DOMAIN fs |-> [directory |-> Head(dirs), file |-> fs[i]]]
          ELSE <<>>)
         \o files_in_order(Tail(dirs), existing, files)

\* A loop over the files that expands the placeholders in the top-level
\* strings of each document as it is loaded.
RECURSIVE inject_all_expanded(_, _)
inject_all_expanded(acc, todo) ==
    IF todo = <<>> THEN Ok(acc)
    ELSE LET e == Head(todo)
             doc == _load_file(e.file)
             expanded == IF IsMap(doc)
                         THEN Dict([k \in DOMAIN doc.m |->
                                     IF doc.m[k].t = "str"
                                     THEN core_resolve_str(doc.m[k].s, <<>>).v
                                     ELSE doc.m[k]])
                         ELSE doc
             r == _inject(acc, _derive_key_path(e.directory, e.file.path), expanded)
         IN  IF Failed(r) THEN Raise(r.err, r.name)
             ELSE inject_all_expanded(r.v, Tail(todo))
\* The loop of load() over the files: each is loaded, projected and
\* injected into merged; the first exception ends the loop.
RECURSIVE inject_all(_, _)
inject_all(acc, todo) ==
    IF todo = <<>> THEN Ok(acc)
    ELSE LET e == Head(todo)
             r == _inject(acc, _derive_key_path(e.directory, e.file.path), _load_file(e.file))
         IN  IF Failed(r) THEN Raise(r.err, r.name) ELSE inject_all(r.v, Tail(todo))

-----------------------------------------------------------------------------
(* Overrides (core.apply_overrides) and the resolvers on trees *)

\* str.split(".")
RECURSIVE split_dots(_, _)
split_dots(str, cur) ==
    IF str = <<>> THEN <<cur>>
    ELSE IF Head(str) = "." THEN <<cur>> \o split_dots(Tail(str), <<>>)
    ELSE split_dots(Tail(str), Append(cur, Head(str)))
split(str) == split_dots(str, <<>>)

\* "." in key
HasDot(str) == \E i \in DOMAIN str : str[i] = "."

\* a in b for two str
IsSubstr(a, b) ==
    \E i \in 0..(Len(b) - Len(a)) : SubSeq(b, i + 1, i + Len(a)) = a

\* Python keywords that the model's characters spell
PythonKeywords == {<<"o", "r">>, <<"a", "s">>, <<"d", "e", "l">>, <<"a", "n", "d">>,
                   <<"n", "o", "t">>, <<"d", "e", "f">>, <<"e", "l", "s", "e">>}

\* core._sanitize_attribute
_sanitize_attribute(name) ==
    LET clean1 == [i \in DOMAIN name |-> IF name[i] \in {"-", " "} THEN "_" ELSE name[i]]
        clean2 == IF clean1 # <<>> /\ clean1[1] = "0" THEN <<"_">> \o clean1 ELSE clean1
        clean3 == IF clean2 \in PythonKeywords THEN clean2 \o <<"_">> ELSE clean2
    IN  IF clean3 # <<>> THEN clean3 ELSE name

\* candidate in current, for a current that is not a mapping; it raises
\* TypeError for a current that is not a container
Contains(cur, candidate) ==
    \/ cur.t = "str" /\ IsSubstr(candidate, cur.s)
    \/ cur.t = "seq" /\ \E i \in DOMAIN cur.q : cur.q[i] = Str(candidate)

\* core._assign_dotted from `current` = cur on: a part (or its alias) that
\* holds a mapping is entered, otherwise current.setdefault(part, {}); at
\* the end current[parts[-1]] = value.  On an exception v is what the
\* mapping holds.
RECURSIVE assign_parts(_, _, _)
assign_parts(cur, ps, value) ==
    IF Len(ps) = 1 THEN
        IF IsMap(cur) THEN Ok(Dict(Put(cur.m, ps[1], value)))
        ELSE RaiseIn("TypeError", ps[1], cur)
    ELSE
        LET part == ps[1]
            part_alias == _sanitize_attribute(part)
        IN  IF ~IsMap(cur) THEN
                IF cur.t \in {"str", "seq"} /\ ~Contains(cur, part) /\ ~Contains(cur, part_alias)
                THEN RaiseIn("AttributeError", part, cur)
                ELSE RaiseIn("TypeError", part, cur)
            ELSE
                LET into == IF part \in DOMAIN cur.m /\ IsMap(cur.m[part]) THEN part
                            ELSE IF part_alias \in DOMAIN cur.m /\ IsMap(cur.m[part_alias])
                            THEN part_alias ELSE part
                    child == IF into \in DOMAIN cur.m THEN cur.m[into] ELSE Dict(<<>>)
                    r == assign_parts(child, Tail(ps), value)
                IN  [err |-> r.err, name |-> r.name, v |-> Dict(Put(cur.m, into, r.v))]

\* core._assign_dotted(target, dotted_key, value)
_assign_dotted(target, dotted_key, value) == assign_parts(target, split(dotted_key), value)

\* mapping.items() of a mapping nested in the overrides
RECURSIVE items(_)
items(f) ==
    IF DOMAIN f = {} THEN <<>>
    ELSE LET k == CHOOSE x \in DOMAIN f : TRUE
         IN  <<[key |-> k, value |-> f[k]]>> \o items(Del(f, k))

\* core.apply_overrides(target, overrides), its the items of overrides in
\* their order: a mapping value recurses into target.setdefault(key, {})
\* (LiteConfError if that is not a mapping), another value is assigned at a
\* dotted key by _assign_dotted and at a plain key by target[key] = value.
RECURSIVE apply_overrides(_, _)
apply_overrides(target, its) ==
    IF its = <<>> THEN Ok(target)
    ELSE LET key == Head(its).key
             value == Head(its).value
             r == IF IsMap(value) THEN
                      LET section == IF key \in DOMAIN target.m THEN target.m[key]
                                     ELSE Dict(<<>>)
                      IN  IF ~IsMap(section) THEN Raise("LiteConfError", key)
                          ELSE LET q == apply_overrides(section, items(value.m))
                               IN  IF Failed(q) THEN q
                                   ELSE Ok(Dict(Put(target.m, key, q.v)))
                  ELSE IF HasDot(key) THEN
                      LET a == _assign_dotted(target, key, value)
                      IN  IF Failed(a) THEN Raise(a.err, a.name) ELSE a
                  ELSE Ok(Dict(Put(target.m, key, value)))
         IN  IF Failed(r) THEN r ELSE apply_overrides(r.v, Tail(its))

\* The outcome of resolving the members of a dict or list: the exception of
\* a member that raised, else the resolved members.  (Which member a dict
\* visits first is its insertion order; the model picks one that raised.)
Collect(rs) ==
    LET bad == {k \in DOMAIN rs : Failed(rs[k])}
    IN  IF bad # {} THEN rs[CHOOSE k \in bad : TRUE]
        ELSE Ok([k \in DOMAIN rs |-> rs[k].v])

\* core.resolve_placeholders(data, env_lookup=...)
RECURSIVE core_resolve_placeholders(_, _)
core_resolve_placeholders(data, env_lookup) ==
    IF IsMap(data) THEN
        LET c == Collect([k \in DOMAIN data.m |-> core_resolve_placeholders(data.m[k], env_lookup)])
        IN  IF Failed(c) THEN c ELSE Ok(Dict(c.v))
    ELSE IF IsSeq(data) THEN
        LET c == Collect([k \in DOMAIN data.q |-> core_resolve_placeholders(data.q[k], env_lookup)])
        IN  IF Failed(c) THEN c ELSE Ok(List(c.v))
    ELSE IF data.t = "str" THEN core_resolve_str(data.s, env_lookup)
    ELSE Ok(data)

\* manager._resolve_placeholders(data, environ): a deep copy of data whose
\* dicts are resolved in place (_resolve_inplace), lists rebuilt
\* (_resolve_nested) and other values passed to _resolve_value
RECURSIVE _resolve_placeholders(_, _)
_resolve_placeholders(data, env_lookup) ==
    IF IsMap(data) THEN
        LET c == Collect([k \in DOMAIN data.m |-> _resolve_placeholders(data.m[k], env_lookup)])
        IN  IF Failed(c) THEN c ELSE Ok(Dict(c.v))
    ELSE IF IsSeq(data) THEN
        LET c == Collect([k \in DOMAIN data.q |-> _resolve_placeholders(data.q[k], env_lookup)])
        IN  IF Failed(c) THEN c ELSE Ok(List(c.v))
    ELSE IF data.t = "str" THEN manager_resolve_value(data.s, env_lookup)
    ELSE Ok(data)

\* ConfigNode(data) / ConfigView(data): the object handed to the caller
View(data) == [t |-> "view", data |-> data]

\* ConfigManager.__init__: self._environ = environ or os.environ
_environ(injected, process_env) == IF Falsy(injected) THEN process_env ELSE injected.m

\* source.load() of a DictOverlay: json.loads(json.dumps(payload))
source_load(src) == Ok(src.payload)

\* A loop over the sources in which the earlier source wins.
RECURSIVE merge_sources_first_wins(_, _)
merge_sources_first_wins(acc, srcs) ==
    IF srcs = <<>> THEN Ok(acc)
    ELSE LET fragment == source_load(Head(srcs))
         IN  IF Failed(fragment) THEN fragment
             ELSE IF ~IsMap(fragment.v) THEN Raise("ValidationError", <<>>)
             ELSE merge_sources_first_wins(merger_merge(fragment.v, acc), Tail(srcs))

\* The loop of ConfigManager.load over the validators from the i-th on:
\* validator(view), an exception of class Exception re-raised as
\* ValidationError(str(exc)), any other propagating.  calls lists the
\* validators called and the view each received.
\* A loop that calls every validator before it raises.
run_validators_all(vs, i, view, calls) ==
    LET raising == {j \in DOMAIN vs : vs[j].raises # "none"}
        every == [j \in DOMAIN vs |-> [validator |-> j, view |-> view]]
    IN  IF raising = {} THEN [outcome |-> Ok(view), calls |-> every]
        ELSE [outcome |-> Raise("ValidationError",
                               vs[CHOOSE j \in raising : \A m \in raising : j <= m].message),
              calls |-> every]
RECURSIVE run_validators(_, _, _, _)
run_validators(vs, i, view, calls) ==
    IF i > Len(vs) THEN [outcome |-> Ok(view), calls |-> calls]
    ELSE LET now == Append(calls, [validator |-> i, view |-> view])
         IN  IF vs[i].raises = "none" THEN run_validators(vs, i + 1, view, now)
             ELSE IF IsKind(vs[i].raises, "Exception")
             THEN [outcome |-> Raise("ValidationError", vs[i].message), calls |-> now]
             ELSE [outcome |-> Raise(vs[i].raises, vs[i].message), calls |-> now]

\* The loop of ConfigManager.load over the sources: a fragment that is not a
\* mapping raises ValidationError, else payload = deep_merge(payload,
\* fragment).
RECURSIVE merge_sources(_, _)
merge_sources(acc, srcs) ==
    IF srcs = <<>> THEN Ok(acc)
    ELSE LET fragment == source_load(Head(srcs))
         IN  IF Failed(fragment) THEN fragment
             ELSE IF ~IsMap(fragment.v) THEN Raise("ValidationError", <<>>)
             ELSE merge_sources(merger_merge(acc, fragment.v), Tail(srcs))

-----------------------------------------------------------------------------
(* Sources (sources.py): _assign, DirectorySource, EnvSource *)

Bool(b) == [t |-> "bool", b |-> b]
\* float(text), kept as the text it was parsed from
Float(txt) == [t |-> "float", f |-> txt]

\* sources._assign below the top: cursor = cursor.setdefault(key, {}) for
\* the keys before the last, then cursor[keys[-1]] = value.  setdefault
\* returns an existing value whatever its type; on a value that is not a
\* dict, setdefault raises AttributeError and item assignment TypeError.
\* On an exception v is what the mapping holds.
RECURSIVE assign_at(_, _, _)
assign_at(cursor, keys, value) ==
    IF Len(keys) = 1 THEN
        IF IsMap(cursor) THEN Ok(Dict(Put(cursor.m, keys[1], value)))
        ELSE RaiseIn("TypeError", keys[1], cursor)
    ELSE
        IF ~IsMap(cursor) THEN RaiseIn("AttributeError", keys[1], cursor)
        ELSE LET child == IF keys[1] \in DOMAIN cursor.m THEN cursor.m[keys[1]]
                          ELSE Dict(<<>>)
                 r == assign_at(child, Tail(keys), value)
             IN  [err |-> r.err, name |-> r.name, v |-> Dict(Put(cursor.m, keys[1], r.v))]

\* sources._assign(target, keys, value)
_assign(target, keys, value) ==
    IF keys = <<>> THEN
        IF IsMap(value)
        THEN Ok(Dict([k \in DOMAIN target.m \cup DOMAIN value.m |->
                        IF k \in DOMAIN value.m THEN value.m[k] ELSE target.m[k]]))
        ELSE RaiseIn("UnsupportedFormatError", <<>>, target)
    ELSE assign_at(target, keys, value)

\* sources.SUPPORTED_SUFFIXES
SUPPORTED_SUFFIXES == {YML, YAML, JSON, TOML}

\* sources._read_file: the parsed document, {} for a YAML document that is
\* falsy
_read_file(f) ==
    LET sfx == lower(suffix(f.path[Len(f.path)]))
    IN  IF sfx \notin SUPPORTED_SUFFIXES THEN Raise("UnsupportedFormatError", f.path)
        ELSE IF sfx \in {YML, YAML} /\ Falsy(f.content) THEN Ok(Dict(<<>>))
        ELSE Ok(f.content)

\* sources._rel_keys: the directories between root and the file, then the
\* stem of the file name
_rel_keys(root, file_path) ==
    LET relative == SubSeq(file_path, Len(root) + 1, Len(file_path))
    IN  IF relative = <<>> THEN <<>>
        ELSE SubSeq(relative, 1, Len(relative) - 1) \o <<stem(relative[Len(relative)])>>

\* path.glob("*") filtered by is_file(): the files directly in the directory
glob(files, directory) == {f \in rglob(files, directory) : Len(f.path) = Len(directory) + 1}

\* The loop of DirectorySource.load over the sorted files.
RECURSIVE assign_files(_, _, _)
assign_files(result, root, files) ==
    IF files = <<>> THEN Ok(result)
    ELSE LET data == _read_file(Head(files))
         IN  IF Failed(data) THEN data
             ELSE LET r == _assign(result, _rel_keys(root, Head(files).path), data.v)
                  IN  IF Failed(r) THEN r ELSE assign_files(r.v, root, Tail(files))

\* DirectorySource.load
DirectorySource_load(src, existing, files) ==
    IF src.path \notin existing THEN
        IF src.optional THEN Ok(Dict(<<>>)) ELSE Raise("FileNotFoundError", src.path)
    ELSE LET iterator == IF src.recursive THEN rglob(files, src.path) ELSE glob(files, src.path)
             found == sorted({f \in iterator :
                                lower(suffix(f.path[Len(f.path)])) \in SUPPORTED_SUFFIXES})
         IN  assign_files(Dict(<<>>), src.path, found)

\* str.strip on the model's whitespace
RECURSIVE lstrip(_)
lstrip(str) == IF str # <<>> /\ Head(str) = " " THEN lstrip(Tail(str)) ELSE str
RECURSIVE rstrip(_)
rstrip(str) ==
    IF str # <<>> /\ str[Len(str)] = " " THEN rstrip(SubSeq(str, 1, Len(str) - 1)) ELSE str
strip(str) == rstrip(lstrip(str))

\* str.isdigit and int(text) on ASCII digits
DigitOrder == <<"0", "1", "2", "3", "4", "5", "6", "7", "8", "9">>
IsDigit(c) == \E i \in DOMAIN DigitOrder : DigitOrder[i] = c
DigitValue(c) == (CHOOSE i \in DOMAIN DigitOrder : DigitOrder[i] = c) - 1
isdigit(str) == str # <<>> /\ \A i \in DOMAIN str : IsDigit(str[i])
RECURSIVE int_of(_, _)
int_of(str, acc) ==
    IF str = <<>> THEN acc ELSE int_of(Tail(str), 10 * acc + DigitValue(Head(str)))
int(str) == IF Head(str) = "-" THEN 0 - int_of(Tail(str), 0) ELSE int_of(str, 0)

\* The index after the longest run of digits that starts at i.
RECURSIVE DigitsEnd(_, _)
DigitsEnd(str, i) == IF i <= Len(str) /\ IsDigit(str[i]) THEN DigitsEnd(str, i + 1) ELSE i

\* float(text) does not raise ValueError, for a text without whitespace or
\* underscores: [sign] (inf | infinity | nan | digits [. [digits]] |
\* . digits) with an exponent e [sign] digits after a number.
IsFloat(str) ==
    LET body == IF str # <<>> /\ Head(str) \in {"+", "-"} THEN Tail(str) ELSE str
        a == DigitsEnd(body, 1)
        dot == a <= Len(body) /\ body[a] = "."
        b == IF dot THEN DigitsEnd(body, a + 1) ELSE a
        mantissa == a > 1 \/ (dot /\ b > a + 1)
        c == IF b + 1 <= Len(body) /\ body[b + 1] \in {"+", "-"} THEN b + 2 ELSE b + 1
        d == DigitsEnd(body, c)
    IN  \/ lower(body) \in {<<"i", "n", "f">>, <<"n", "a", "n">>,
                            <<"i", "n", "f", "i", "n", "i", "t", "y">>}
        \/ /\ mantissa
           /\ \/ b = Len(body) + 1
              \/ b <= Len(body) /\ body[b] \in {"e", "E"} /\ d > c /\ d = Len(body) + 1

\* The boolean tokens
TrueTokens == {<<"1">>, <<"t", "r", "u", "e">>, <<"y", "e", "s">>, <<"o", "n">>}
FalseTokens == {<<"0">>, <<"f", "a", "l", "s", "e">>, <<"n", "o">>, <<"o", "f", "f">>}

\* A classification that tries the integers before the boolean tokens.
_coerce_env_value_int_first(value) ==
    LET txt == strip(value)
        lowered == lower(txt)
    IN  IF isdigit(txt) \/ (txt # <<>> /\ Head(txt) = "-" /\ isdigit(Tail(txt)))
        THEN Num(int(txt))
        ELSE IF lowered \in TrueTokens THEN Bool(TRUE)
        ELSE IF lowered \in FalseTokens THEN Bool(FALSE)
        ELSE IF IsFloat(txt) THEN Float(txt)
        ELSE Str(value)
\* sources._coerce_env_value
_coerce_env_value(value) ==
    LET txt == strip(value)
        lowered == lower(txt)
    IN  IF lowered \in TrueTokens THEN Bool(TRUE)
        ELSE IF lowered \in FalseTokens THEN Bool(FALSE)
        ELSE IF isdigit(txt) \/ (txt # <<>> /\ Head(txt) = "-" /\ isdigit(Tail(txt)))
        THEN Num(int(txt))
        ELSE IF IsFloat(txt) THEN Float(txt)
        ELSE Str(value)

\* str.split(sep)
RECURSIVE split_sep(_, _, _)
split_sep(str, sep, cur) ==
    IF str = <<>> THEN <<cur>>
    ELSE IF HasAt(str, 1, sep)
    THEN <<cur>> \o split_sep(SubSeq(str, Len(sep) + 1, Len(str)), sep, <<>>)
    ELSE split_sep(Tail(str), sep, Append(cur, Head(str)))

\* EnvSource.load: env = self.environ or os.environ
EnvSource_env(src, process_env) ==
    IF Falsy(src.environ) THEN process_env ELSE src.environ.m

\* The loop of EnvSource.load over env.items(), keys in the order given.
RECURSIVE assign_entries(_, _, _, _)
assign_entries(result, src, env_map, order) ==
    IF order = <<>> THEN Ok(result)
    ELSE LET key == Head(order)
             prefix_norm == upper(src.prefix) \o src.delimiter
         IN  IF ~HasAt(upper(key), 1, prefix_norm)
             THEN assign_entries(result, src, env_map, Tail(order))
             ELSE LET stripped == SubSeq(key, Len(prefix_norm) + 1, Len(key))
                      split_segments == split_sep(stripped, src.delimiter, <<>>)
                      segments == [i \in DOMAIN split_segments |-> lower(split_segments[i])]
                      value == IF src.infer_types THEN _coerce_env_value(env_map[key])
                               ELSE Str(env_map[key])
                      r == _assign(result, segments, value)
                  IN  IF Failed(r) THEN r
                      ELSE assign_entries(r.v, src, env_map, Tail(order))

\* EnvSource.load, order the order of the keys of env
EnvSource_load(src, process_env, order) ==
    assign_entries(Dict(<<>>), src, EnvSource_env(src, process_env), order)

-----------------------------------------------------------------------------
(* ConfigView.get (namespaces.py) and the conversions it calls *)

\* str(n) of an int
RECURSIVE digits_of(_)
digits_of(n) ==
    IF n < 10 THEN <<DigitOrder[n + 1]>>
    ELSE Append(digits_of(n \div 10), DigitOrder[(n % 10) + 1])
str_int(n) == IF n < 0 THEN <<"-">> \o digits_of(0 - n) ELSE digits_of(n)

\* str(value).  A float holds the text it is written as, and the floats
\* of the views are written as their repr; of the repr of a list or a dict
\* only the brackets are kept.
py_str(value) ==
    CASE value.t = "str" -> value.s
      [] value.t = "int" -> str_int(value.i)
      [] value.t = "bool" -> IF value.b THEN <<"T", "r", "u", "e">>
                             ELSE <<"F", "a", "l", "s", "e">>
      [] value.t = "float" -> value.f
      [] value.t = "none" -> <<"N", "o", "n", "e">>
      [] value.t = "seq" -> <<"[", "]">>
      [] value.t = "map" -> <<"{", "}">>

\* namespaces._coerce_bool
_coerce_bool(value) ==
    IF value.t = "bool" THEN Ok(value)
    ELSE LET txt == lower(strip(py_str(value)))
         IN  IF txt \in {<<"1">>, <<"t", "r", "u", "e">>, <<"y", "e", "s">>, <<"o", "n">>}
             THEN Ok(Bool(TRUE))
             ELSE IF txt \in {<<"0">>, <<"f", "a", "l", "s", "e">>, <<"n", "o">>,
                              <<"o", "f", "f">>}
             THEN Ok(Bool(FALSE))
             ELSE Raise("ValueError", py_str(value))

Unsigned(txt) == IF txt # <<>> /\ Head(txt) \in {"+", "-"} THEN Tail(txt) ELSE txt
Negative(txt) == txt # <<>> /\ Head(txt) = "-"
IsInfinity(txt) == lower(Unsigned(txt)) \in {<<"i", "n", "f">>,
                                             <<"i", "n", "f", "i", "n", "i", "t", "y">>}
IsNaN(txt) == lower(Unsigned(txt)) = <<"n", "a", "n">>

\* int(value): an int itself, a bool as 0 or 1, a string by its stripped
\* text ([sign] digits, else ValueError), a float by truncation
\* (OverflowError for an infinity, ValueError for a nan; the digits before
\* the point, for a float written without exponent), TypeError otherwise.
coerce_int(value) ==
    CASE value.t = "int" -> Ok(value)
      [] value.t = "bool" -> Ok(Num(IF value.b THEN 1 ELSE 0))
      [] value.t = "str" ->
            LET txt == strip(value.s)
            IN  IF isdigit(Unsigned(txt))
                THEN Ok(Num(IF Negative(txt) THEN 0 - int_of(Unsigned(txt), 0)
                            ELSE int_of(Unsigned(txt), 0)))
                ELSE Raise("ValueError", value.s)
      [] value.t = "float" ->
            IF IsInfinity(value.f) THEN Raise("OverflowError", value.f)
            ELSE IF IsNaN(value.f) THEN Raise("ValueError", value.f)
            ELSE LET body == Unsigned(value.f)
                     whole == int_of(SubSeq(body, 1, DigitsEnd(body, 1) - 1), 0)
                 IN  Ok(Num(IF Negative(value.f) THEN 0 - whole ELSE whole))
      [] OTHER -> Raise("TypeError", <<>>)

\* float(value): a float itself, an int or a bool as the float of that
\* number, a string by its stripped text (ValueError if it is not a float
\* literal), TypeError otherwise.
coerce_float(value) ==
    CASE value.t = "float" -> Ok(value)
      [] value.t = "int" -> Ok(Float(str_int(value.i) \o <<".", "0">>))
      [] value.t = "bool" -> Ok(Float(IF value.b THEN <<"1", ".", "0">> ELSE <<"0", ".", "0">>))
      [] value.t = "str" -> IF IsFloat(strip(value.s)) THEN Ok(Float(strip(value.s)))
                            ELSE Raise("ValueError", value.s)
      [] OTHER -> Raise("TypeError", <<>>)

\* coerce(current) for the types of the model
coerce_call(ctype, value) ==
    CASE ctype = "bool" -> _coerce_bool(value)
      [] ctype = "int" -> coerce_int(value)
      [] ctype = "float" -> coerce_float(value)

\* The loop of get over dotted_path.split(".")
RECURSIVE walk(_, _)
walk(cur, ps) ==
    IF ps = <<>> THEN [found |-> TRUE, v |-> cur]
    ELSE IF IsMap(cur) /\ Head(ps) \in DOMAIN cur.m THEN walk(cur.m[Head(ps)], Tail(ps))
    ELSE [found |-> FALSE, v |-> None]

\* ConfigView.get(dotted_path, default, coerce=ctype)
ConfigView_get(data, path, dflt, ctype) ==
    IF path = <<>> THEN Raise("ValueError", path)
    ELSE LET w == walk(data, split(path))
         IN  IF ~w.found THEN Ok(dflt)
             ELSE IF ctype # "none"
             THEN LET r == coerce_call(ctype, w.v)
                  IN  IF IsKind(r.err, "TypeError") \/ IsKind(r.err, "ValueError")
                      THEN Ok(dflt)
                      ELSE r
             ELSE Ok(w.v)

-----------------------------------------------------------------------------
(* The pipelines on objects: what load() allocates, copies and shares.     *)
(* An outcome is [h |-> heap, err, name, v |-> value].                     *)

HOk(h, v) == [h |-> h, err |-> "none", name |-> <<>>, v |-> v]
HRaise(h, kind, name) == [h |-> h, err |-> kind, name |-> name, v |-> None]
\* A new object
Alloc(h, o) == [h |-> Append(h, o), v |-> Ref(Len(h) + 1)]

\* DictOverlay.load(): json.loads(json.dumps(self.payload)), the content
\* of the payload written out and parsed into new objects.
DictOverlay_load(h, src) == Build(h, Val(h, src.payload))

\* manager._resolve_inplace(node, environ) for the dict at address a, ks
\* the keys still to visit; _resolve_nested(value, environ); and the list
\* comprehension [_resolve_nested(item, environ) for item in value].
RECURSIVE _resolve_inplace(_, _, _, _), _resolve_nested(_, _, _), _resolve_items(_, _, _, _, _)
_resolve_inplace(h, a, ks, env_lookup) ==
    IF ks = {} THEN HOk(h, Ref(a))
    ELSE LET key == CHOOSE x \in ks : TRUE
             value == h[a].m[key]
         IN  IF IsMapRef(h, value) THEN
                 LET r == _resolve_inplace(h, value.a, DOMAIN h[value.a].m, env_lookup)
                 IN  IF Failed(r) THEN r
                     ELSE _resolve_inplace(r.h, a, ks \ {key}, env_lookup)
             ELSE
                 LET r == IF IsRef(value)
                          THEN _resolve_items(h, h[value.a].q, 1, <<>>, env_lookup)
                          ELSE _resolve_nested(h, value, env_lookup)
                 IN  IF Failed(r) THEN r
                     ELSE _resolve_inplace([r.h EXCEPT ![a] = Dict(Put(r.h[a].m, key, r.v))],
                                           a, ks \ {key}, env_lookup)
_resolve_items(h, q, n, acc, env_lookup) ==
    IF n > Len(q) THEN LET l == Alloc(h, List(acc)) IN HOk(l.h, l.v)
    ELSE LET r == _resolve_nested(h, q[n], env_lookup)
         IN  IF Failed(r) THEN r
             ELSE _resolve_items(r.h, q, n + 1, Append(acc, r.v), env_lookup)
_resolve_nested(h, value, env_lookup) ==
    IF IsMapRef(h, value) THEN
        LET nested == deepcopy(h, value)
        IN  _resolve_inplace(nested.h, nested.v.a, DOMAIN nested.h[nested.v.a].m, env_lookup)
    ELSE IF IsRef(value) THEN _resolve_items(h, h[value.a].q, 1, <<>>, env_lookup)
    ELSE IF value.t = "str" THEN
        LET r == manager_resolve_value(value.s, env_lookup)
        IN  [h |-> h, err |-> r.err, name |-> r.name, v |-> r.v]
    ELSE HOk(h, value)

\* manager._resolve_placeholders(data, environ) on objects:
\* cloned = deepcopy(dict(data)); _resolve_inplace(cloned, environ)
manager_resolve_placeholders(h, data, env_lookup) ==
    LET cloned == deepcopy(h, data)
    IN  _resolve_inplace(cloned.h, cloned.v.a, DOMAIN cloned.h[cloned.v.a].m, env_lookup)

\* core.resolve_placeholders(data, env_lookup=...) on objects: a dict and
\* a list are rebuilt by comprehensions, a str goes through the pattern,
\* any other value is returned as it is.
RECURSIVE resolve_placeholders(_, _, _), resolve_dict(_, _, _, _, _), resolve_list(_, _, _, _, _)
resolve_placeholders(h, data, env_lookup) ==
    IF IsMapRef(h, data) THEN resolve_dict(h, h[data.a].m, DOMAIN h[data.a].m, <<>>, env_lookup)
    ELSE IF IsRef(data) THEN resolve_list(h, h[data.a].q, 1, <<>>, env_lookup)
    ELSE IF data.t = "str" THEN
        LET r == core_resolve_str(data.s, env_lookup)
        IN  [h |-> h, err |-> r.err, name |-> r.name, v |-> r.v]
    ELSE HOk(h, data)
resolve_dict(h, f, ks, acc, env_lookup) ==
    IF ks = {} THEN LET d == Alloc(h, Dict(acc)) IN HOk(d.h, d.v)
    ELSE LET k == CHOOSE x \in ks : TRUE
             r == resolve_placeholders(h, f[k], env_lookup)
         IN  IF Failed(r) THEN r
             ELSE resolve_dict(r.h, f, ks \ {k}, Put(acc, k, r.v), env_lookup)
resolve_list(h, q, n, acc, env_lookup) ==
    IF n > Len(q) THEN LET l == Alloc(h, List(acc)) IN HOk(l.h, l.v)
    ELSE LET r == resolve_placeholders(h, q[n], env_lookup)
         IN  IF Failed(r) THEN r
             ELSE resolve_list(r.h, q, n + 1, Append(acc, r.v), env_lookup)

\* ConfigManager.load(): the loop over the sources, payload the dict
\* merged so far
RECURSIVE load_sources(_, _, _)
load_sources(h, acc, srcs) ==
    IF srcs = <<>> THEN HOk(h, acc)
    ELSE LET fragment == DictOverlay_load(h, Head(srcs))
         IN  IF ~IsMapRef(fragment.h, fragment.v)
             THEN HRaise(fragment.h, "ValidationError", <<>>)
             ELSE LET r == merger_deep_merge(fragment.h, acc, fragment.v)
                  IN  load_sources(r.h, r.v, Tail(srcs))

\* A load() that hands the payload of its last source to the View.
ConfigManager_load_shared(h, srcs, interpolate, env_lookup) ==
    HOk(h, srcs[Len(srcs)].payload)
\* ConfigManager.load() without validators; v is the dict the View wraps.
ConfigManager_load(h, srcs, interpolate, env_lookup) ==
    LET empty == Alloc(h, Dict(<<>>))
        r == load_sources(empty.h, empty.v, srcs)
    IN  IF Failed(r) THEN r
        ELSE IF interpolate THEN manager_resolve_placeholders(r.h, r.v, env_lookup)
        ELSE LET resolved_copy == deepcopy(r.h, r.v) IN HOk(resolved_copy.h, resolved_copy.v)

\* ConfigManager.reload(): return self.load()
ConfigManager_reload(h, srcs, interpolate, env_lookup) ==
    ConfigManager_load(h, srcs, interpolate, env_lookup)

\* LayeredConfigLoader.load() without overrides: the documents are parsed
\* into objects of this call and merged into a new dict, which
\* resolve_placeholders rebuilds; v is the dict the ConfigNode wraps.
LayeredConfigLoader_load(h, ls, self_env, var, process_env, existing, files) ==
    LET dirs == _expand_layers(ls, self_env, var, process_env)
        todo == files_in_order(dirs, existing, files)
        r == inject_all(Dict(<<>>), todo)
    IN  IF dirs = <<>> THEN HRaise(h, "ConfigNotFoundError", <<>>)
        ELSE IF Failed(r) THEN HRaise(h, r.err, r.name)
        ELSE IF Len(todo) = 0 THEN HRaise(h, "ConfigNotFoundError", dirs)
        ELSE LET built == Build(h, r.v)
             IN  resolve_placeholders(built.h, built.v, process_env)

-----------------------------------------------------------------------------
(* The trees the merge is called with *)

NumScalars == 2

Keys == {"a", "b"}
InnerKeys == {"a"}

Scalars == {Num(n) : n \in 1..NumScalars}
SeqLeaves == {List(<<Num(1)>>), List(<<Num(2), Num(1)>>),
              List(<<Dict([k \in {"a"} |-> Num(1)])>>)}
Leaves == Scalars \cup SeqLeaves

MapsOver(ks, vals) == UNION {[d -> vals] : d \in SUBSET ks}
InnerTrees == {Dict(f) : f \in MapsOver(InnerKeys, Leaves)}
InputTrees == {Dict(f) : f \in MapsOver(Keys, Leaves \cup InnerTrees)}

-----------------------------------------------------------------------------
(* A caller of deep_merge: it holds base and overlay, calls one of the two *)
(* functions, and afterwards mutates the overlay it passed.                *)

\* No string is being resolved.
IdleResolve ==
    /\ parts = <<>> /\ text = <<>> /\ lookup = <<>>
    /\ resolver = "none" /\ rpc = "idle" /\ resolved = None

\* No loader and no manager is in use.
IdleLoader ==
    /\ layers = <<>> /\ env = None /\ env_var = <<>> /\ overrides = <<>>
    /\ lpc = "idle" /\ ordered_dirs = <<>> /\ files_loaded = 0
    /\ lmerged = None /\ beforeOverrides = None /\ lresolved = None
    /\ lresult = None
IdleManager ==
    /\ sources = <<>> /\ interpolate_env = TRUE /\ environ = None
    /\ mpc = "idle" /\ payload = None /\ mresolved = None /\ mresult = None
    /\ validators = <<>> /\ called = <<>>
IdleLoad ==
    /\ osEnviron = <<>> /\ fsDirs = {} /\ fsFiles = {}
    /\ IdleLoader /\ IdleManager
\* No source is being loaded on its own.
IdleSources == source = None /\ spc = "idle" /\ sresult = None /\ visit = <<>>
IdleView ==
    /\ vdata = None /\ dotted_path = <<>> /\ vdefault = None
    /\ coerce = "none" /\ vpc = "idle" /\ vresult = None
IdleReload == rheap = <<>> /\ returned = <<>> /\ mutations = 0
IdleAssign ==
    /\ afn = "none" /\ atarget = None /\ akeys = <<>> /\ avalue = None
    /\ apc = "idle" /\ aresult = None
IdleExpand ==
    /\ xfn = "none" /\ xshape = 0 /\ xparts = <<>> /\ xlookup = <<>>
    /\ xheap = <<>> /\ xdata = None /\ xpc = "idle" /\ xresult = None
IdleOther == IdleSources /\ IdleView /\ IdleReload /\ IdleAssign /\ IdleExpand
IdleMerge ==
    /\ heap = <<>> /\ base = None /\ overlay = None /\ merged = None
    /\ impl = "none" /\ pc = "idle"
    /\ baseBefore = None /\ overlayBefore = None /\ mergedAtReturn = None

Init ==
    /\ IdleResolve
    /\ IdleLoad
    /\ IdleOther
    /\ \E b, o \in InputTrees :
         LET rb == Build(<<>>, b)
             ro == Build(rb.h, o)
         IN  /\ heap = ro.h
             /\ base = rb.v
             /\ overlay = ro.v
    /\ merged = None
    /\ impl = "none"
    /\ pc = "start"
    /\ baseBefore = None
    /\ overlayBefore = None
    /\ mergedAtReturn = None

\* merged = merger.deep_merge(base, overlay)
CallMergerDeepMerge ==
    /\ pc = "start"
    /\ LET r == merger_deep_merge(heap, base, overlay)
       IN  /\ heap' = r.h
           /\ merged' = r.v
           /\ mergedAtReturn' = Val(r.h, r.v)
    /\ baseBefore' = Val(heap, base)
    /\ overlayBefore' = Val(heap, overlay)
    /\ impl' = "merger"
    /\ pc' = "merged"
    /\ UNCHANGED <<base, overlay>>
    /\ UNCHANGED <<varsResolve, varsLoad, varsOther>>

\* merged = core.deep_merge(base, overlay)
CallCoreDeepMerge ==
    /\ pc = "start"
    /\ LET r == core_deep_merge(heap, base, overlay)
       IN  /\ heap' = r.h
           /\ merged' = r.v
           /\ mergedAtReturn' = Val(r.h, r.v)
    /\ baseBefore' = Val(heap, base)
    /\ overlayBefore' = Val(heap, overlay)
    /\ impl' = "core"
    /\ pc' = "merged"
    /\ UNCHANGED <<base, overlay>>
    /\ UNCHANGED <<varsResolve, varsLoad, varsOther>>

\* The caller mutates the overlay object or an object nested inside it:
\* d[k] = 0 or del d[k] on a dict, l.append(0) on a list.
MutateOverlay ==
    /\ pc = "merged"
    /\ \E a \in Reach(heap, overlay) :
         IF IsMap(heap[a])
         THEN \/ \E k \in Keys : heap' = [heap EXCEPT ![a] = Dict(Put(heap[a].m, k, Num(0)))]
              \/ \E k \in DOMAIN heap[a].m : heap' = [heap EXCEPT ![a] = Dict(Del(heap[a].m, k))]
         ELSE heap' = [heap EXCEPT ![a] = List(Append(heap[a].q, Num(0)))]
    /\ pc' = "mutated"
    /\ UNCHANGED <<base, overlay, merged, impl, baseBefore, overlayBefore, mergedAtReturn>>
    /\ UNCHANGED <<varsResolve, varsLoad, varsOther>>

Next ==
    \/ CallMergerDeepMerge
    \/ CallCoreDeepMerge
    \/ MutateOverlay

Spec == Init /\ [][Next]_vars

-----------------------------------------------------------------------------
(* A call of a resolver on one string.  The string is written as a         *)
(* sequence of parts: literal text, or a placeholder ${NAME} or            *)
(* ${NAME:-fallback}.                                                      *)

MaxParts == 2

Names == {<<"A">>, <<"B", "0">>}
Fallbacks == {<<>>, <<"g">>, <<"$", "{", "A">>}
Literals == {<<"x">>, <<"$">>, <<"}">>, <<":", "-">>}
LookupValues == {<<>>, <<"v">>, <<"$", "{", "A", "}">>}

Lit(s) == [p |-> "lit", s |-> s, name |-> <<>>, hasfb |-> FALSE, fb |-> <<>>]
Placeholder(n) == [p |-> "ph", s |-> <<>>, name |-> n, hasfb |-> FALSE, fb |-> <<>>]
PlaceholderFb(n, f) == [p |-> "ph", s |-> <<>>, name |-> n, hasfb |-> TRUE, fb |-> f]

Parts == {Lit(s) : s \in Literals} \cup {Placeholder(n) : n \in Names}
         \cup {PlaceholderFb(n, f) : n \in Names, f \in Fallbacks}

\* The text of a part, and of a sequence of parts.
Render(part) ==
    IF part.p = "lit" THEN part.s
    ELSE <<"$", "{">> \o part.name
         \o (IF part.hasfb THEN <<":", "-">> \o part.fb ELSE <<>>) \o <<"}">>
RECURSIVE RenderAll(_)
RenderAll(ps) == IF ps = <<>> THEN <<>> ELSE Render(Head(ps)) \o RenderAll(Tail(ps))

Lookups == UNION {[d -> LookupValues] : d \in SUBSET Names}

InitResolve ==
    /\ IdleMerge
    /\ IdleLoad
    /\ IdleOther
    /\ \E n \in 0..MaxParts : parts \in [1..n -> Parts]
    /\ text = RenderAll(parts)
    /\ lookup \in Lookups
    /\ resolver = "none"
    /\ rpc = "start"
    /\ resolved = None

\* core.resolve_placeholders(text, env_lookup=lookup)
CoreResolveStr ==
    /\ rpc = "start"
    /\ resolved' = core_resolve_str(text, lookup)
    /\ resolver' = "core"
    /\ rpc' = "done"
    /\ UNCHANGED <<parts, text, lookup>>
    /\ UNCHANGED <<varsMerge, varsLoad, varsOther>>

\* manager._resolve_value(text, lookup)
ManagerResolveValue ==
    /\ rpc = "start"
    /\ resolved' = manager_resolve_value(text, lookup)
    /\ resolver' = "manager"
    /\ rpc' = "done"
    /\ UNCHANGED <<parts, text, lookup>>
    /\ UNCHANGED <<varsMerge, varsLoad, varsOther>>

NextResolve ==
    \/ CoreResolveStr
    \/ ManagerResolveValue

SpecResolve == InitResolve /\ [][NextResolve]_vars

-----------------------------------------------------------------------------
(* LayeredConfigLoader.load and ConfigManager.load.  A run is either one   *)
(* loader or one manager, constructed as Init says.                        *)

MaxOverrides == 2
MaxSources == 3
MaxValidators == 2

\* directories, file names, keys and environment variable names
BaseDir == << <<"b">> >>
LocalDir == << <<"l">> >>
Prod == <<"p">>
S_YML == <<"s", ".", "y", "m", "l">>
S_JSON == <<"s", ".", "j", "s", "o", "n">>
N_TXT == <<"n", ".", "t", "x", "t">>
APP_ENV == <<"E">>
VarA == <<"A">>

D1(k, v) == Dict(k :> v)
D2(k1, v1, k2, v2) == Dict((k1 :> v1) @@ (k2 :> v2))
File(path, content) == [path |-> path, content |-> content]
Item(key, value) == [key |-> key, value |-> value]

\* the directories above the files
ParentDirs(files) ==
    UNION {{SubSeq(f.path, 1, n) : n \in 1..(Len(f.path) - 1)} : f \in files}

\* the files chosen among candidate paths: content None is no file
FilesOf(paths, contents) ==
    {File(paths[i], contents[i]) : i \in {j \in DOMAIN paths : contents[j] # None}}

\* Layers with and without environment folders, files that define and
\* redefine s.u and s.r, directories that are missing or empty.
LayerPaths == <<BaseDir \o <<S_YML>>, BaseDir \o <<Prod, S_YML>>,
                LocalDir \o <<S_YML>>, LocalDir \o <<Prod, S_YML>>,
                BaseDir \o <<S_JSON>>, BaseDir \o <<N_TXT>>>>
LayerContents ==
    {<<c1, c2, c3, c4, c5, c6>> :
        c1 \in {None, D1(<<"u">>, Num(1)), D2(<<"u">>, Num(1), <<"r">>, Num(1))},
        c2 \in {None, D1(<<"u">>, Num(2))},
        c3 \in {None, D1(<<"u">>, Num(3)), D1(<<"r">>, Num(3))},
        c4 \in {None, D1(<<"u">>, Num(4))},
        c5 \in {None, D1(<<"u">>, Num(5))},
        c6 \in {None, Str(<<"x">>)}}
ExtraDirs == {{}, {BaseDir}, {BaseDir, LocalDir, BaseDir \o <<Prod>>}}

InitLayers ==
    /\ layers \in {<<BaseDir>>, <<BaseDir, LocalDir>>, <<LocalDir, BaseDir>>}
    /\ env \in {None, Str(<<>>), Str(Prod)}
    /\ env_var = APP_ENV
    /\ osEnviron \in {<<>>, APP_ENV :> Prod}
    /\ \E cs \in LayerContents, extra \in ExtraDirs :
         /\ fsFiles = FilesOf(LayerPaths, cs)
         /\ fsDirs = ParentDirs(FilesOf(LayerPaths, cs)) \cup extra
    /\ overrides \in {<<>>, <<Item(<<"x">>, Num(9))>>}

\* One layer with one file, and overrides of every shape against it.
OverridesFile ==
    File(BaseDir \o <<S_YML>>,
         Dict((<<"o">> :> D1(<<"l">>, Num(1))) @@ (<<"e">> :> Num(5))
              @@ (<<"q">> :> List(<<Num(1)>>)) @@ (<<"t">> :> Str(<<"a", "b">>))))
OverrideItems ==
    {Item(<<"s", ".", "o", ".", "l">>, Num(9)),
     Item(<<"s", ".", "e">>, Num(9)),
     Item(<<"s", ".", "n", ".", "m">>, Num(9)),
     Item(<<"s", ".", "e", ".", "x">>, Num(9)),
     Item(<<"s", ".", "q", ".", "x">>, Num(9)),
     Item(<<"s", ".", "t", ".", "a", ".", "b">>, Num(9)),
     Item(<<"s", ".", "o">>, Num(9)),
     Item(<<"s", ".", "o">>, List(<<Num(9)>>)),
     Item(<<"s", ".", "o">>, D1(<<"l">>, Num(9))),
     Item(<<"s">>, Num(9)),
     Item(<<"s">>, D1(<<"o">>, D1(<<"l">>, Num(9)))),
     Item(<<"s">>, D1(<<"o", ".", "l">>, Num(9))),
     Item(<<"s">>, D1(<<"e">>, D1(<<"x">>, Num(9)))),
     Item(<<"n">>, D1(<<"m">>, Num(9))),
     Item(<<"n">>, Num(9))}

\* dict keys are unique
DistinctKeys(its) == \A i, j \in DOMAIN its : its[i].key = its[j].key => i = j

InitOverrides ==
    /\ layers = <<BaseDir>>
    /\ env = None
    /\ env_var = APP_ENV
    /\ osEnviron = <<>>
    /\ fsFiles = {OverridesFile}
    /\ fsDirs = {BaseDir}
    /\ \E n \in 1..MaxOverrides :
         /\ overrides \in [1..n -> OverrideItems]
         /\ DistinctKeys(overrides)

\* Placeholders in a file of the first layer, replaced or not by a later
\* layer or by an override.
PlaceholderTexts ==
    {<<"$", "{", "A", "}">>, <<"$", "{", "A", ":", "-", "g", "}">>,
     <<"x", "$", "{", "A", "}", "$", "{", "B", "}">>, <<"x">>}

InitPlaceholders ==
    /\ layers \in {<<BaseDir>>, <<BaseDir, LocalDir>>}
    /\ env = None
    /\ env_var = APP_ENV
    /\ osEnviron \in {<<>>, VarA :> <<"v">>, VarA :> <<>>}
    /\ \E tx \in PlaceholderTexts, c \in {None, D1(<<"u">>, Str(<<"y">>))} :
         fsFiles = FilesOf(<<BaseDir \o <<S_YML>>, LocalDir \o <<S_YML>>>>,
                           <<D1(<<"u">>, Str(tx)), c>>)
    /\ fsDirs = {BaseDir, LocalDir}
    /\ overrides \in {<<>>, <<Item(<<"s", ".", "u">>, Str(<<"z">>))>>,
                      <<Item(<<"s", ".", "w">>, Str(<<"$", "{", "A", "}">>))>>}

InitLoader ==
    /\ IdleManager
    /\ lpc = "start"
    /\ ordered_dirs = <<>> /\ files_loaded = 0
    /\ lmerged = None /\ beforeOverrides = None /\ lresolved = None
    /\ lresult = None
    /\ \/ InitLayers
       \/ InitOverrides
       \/ InitPlaceholders

\* The payloads of the manager's DictOverlay sources.
SourcePayloads ==
    {D1(<<"s">>, D1(<<"u">>, Num(1))),
     D1(<<"s">>, D2(<<"u">>, Num(2), <<"r">>, Num(1))),
     D1(<<"s">>, D1(<<"r">>, Num(3))),
     D1(<<"s">>, Dict(<<>>)),
     D1(<<"s">>, Num(5)),
     D1(<<"x">>, List(<<Num(1)>>)),
     D1(<<"s">>, D1(<<"u">>, Str(<<"$", "{", "A", "}">>))),
     D1(<<"s">>, D1(<<"u">>, Str(<<"$", "{", "A", ":", "-", "g", "}">>))),
     List(<<Num(1)>>)}
DictOverlay(tr) == [kind |-> "DictOverlay", payload |-> tr]

\* What a validator does when called: it returns, or raises an exception of
\* a class with a message (str(exc)).
Validator(raises, message) == [raises |-> raises, message |-> message]
ValidatorKinds ==
    {Validator("none", <<>>), Validator("ValueError", <<"m">>), Validator("KeyError", <<"k">>),
     Validator("ValidationError", <<"v">>), Validator("KeyboardInterrupt", <<>>)}

\* Sources without validators, or one source with validators.
InitManager ==
    /\ IdleLoader
    /\ fsDirs = {} /\ fsFiles = {}
    /\ \/ /\ \E n \in 1..MaxSources :
               sources \in [1..n -> {DictOverlay(tr) : tr \in SourcePayloads}]
          /\ validators = <<>>
       \/ /\ sources = <<DictOverlay(D1(<<"s">>, D1(<<"u">>, Num(1))))>>
          /\ \E n \in 1..MaxValidators : validators \in [1..n -> ValidatorKinds]
    /\ called = <<>>
    /\ interpolate_env \in BOOLEAN
    /\ environ \in {None, Dict(<<>>), Dict(VarA :> <<"v">>)}
    /\ osEnviron \in {<<>>, VarA :> <<"w">>}
    /\ mpc = "start"
    /\ payload = None /\ mresolved = None /\ mresult = None

InitLoad ==
    /\ IdleMerge
    /\ IdleResolve
    /\ IdleOther
    /\ \/ InitLoader
       \/ InitManager

\* load(): ordered_dirs = self._expand_layers(), ConfigNotFoundError if the
\* list is empty
LoaderExpandLayers ==
    /\ lpc = "start"
    /\ LET dirs == _expand_layers(layers, env, env_var, osEnviron)
       IN  /\ ordered_dirs' = dirs
           /\ IF dirs = <<>>
              THEN /\ lpc' = "failed"
                   /\ lresult' = Raise("ConfigNotFoundError", <<>>)
              ELSE /\ lpc' = "expanded"
                   /\ UNCHANGED lresult
    /\ UNCHANGED <<layers, env, env_var, overrides, files_loaded, lmerged,
                   beforeOverrides, lresolved>>
    /\ UNCHANGED <<varsMerge, varsResolve, varsProcess, varsManager, varsOther>>

\* load(): the loop over the directories and their files, then
\* ConfigNotFoundError naming the directories if no file was loaded
LoaderMergeFiles ==
    /\ lpc = "expanded"
    /\ LET todo == files_in_order(ordered_dirs, fsDirs, fsFiles)
           r == inject_all(Dict(<<>>), todo)
       IN  IF Failed(r)
           THEN /\ lpc' = "failed"
                /\ lresult' = r
                /\ UNCHANGED <<lmerged, files_loaded>>
           ELSE IF Len(todo) = 0
           THEN /\ lpc' = "failed"
                /\ lresult' = Raise("ConfigNotFoundError", ordered_dirs)
                /\ UNCHANGED <<lmerged, files_loaded>>
           ELSE /\ lpc' = "merged"
                /\ lmerged' = r.v
                /\ files_loaded' = Len(todo)
                /\ UNCHANGED lresult
    /\ UNCHANGED <<layers, env, env_var, overrides, ordered_dirs,
                   beforeOverrides, lresolved>>
    /\ UNCHANGED <<varsMerge, varsResolve, varsProcess, varsManager, varsOther>>

\* load(): if overrides: apply_overrides(merged, overrides)
LoaderApplyOverrides ==
    /\ lpc = "merged"
    /\ beforeOverrides' = lmerged
    /\ LET r == IF overrides # <<>> THEN apply_overrides(lmerged, overrides) ELSE Ok(lmerged)
       IN  IF Failed(r)
           THEN /\ lpc' = "failed"
                /\ lresult' = r
                /\ UNCHANGED lmerged
           ELSE /\ lpc' = "overridden"
                /\ lmerged' = r.v
                /\ UNCHANGED lresult
    /\ UNCHANGED <<layers, env, env_var, overrides, ordered_dirs, files_loaded, lresolved>>
    /\ UNCHANGED <<varsMerge, varsResolve, varsProcess, varsManager, varsOther>>

\* load(): resolved = resolve_placeholders(merged, env_lookup=os.environ)
LoaderResolvePlaceholders ==
    /\ lpc = "overridden"
    /\ LET r == core_resolve_placeholders(lmerged, osEnviron)
       IN  IF Failed(r)
           THEN /\ lpc' = "failed"
                /\ lresult' = r
                /\ UNCHANGED lresolved
           ELSE /\ lpc' = "resolved"
                /\ lresolved' = r.v
                /\ UNCHANGED lresult
    /\ UNCHANGED <<layers, env, env_var, overrides, ordered_dirs, files_loaded,
                   lmerged, beforeOverrides>>
    /\ UNCHANGED <<varsMerge, varsResolve, varsProcess, varsManager, varsOther>>

\* load(): return ConfigNode(resolved)
LoaderReturn ==
    /\ lpc = "resolved"
    /\ lresult' = Ok(View(lresolved))
    /\ lpc' = "done"
    /\ UNCHANGED <<layers, env, env_var, overrides, ordered_dirs, files_loaded,
                   lmerged, beforeOverrides, lresolved>>
    /\ UNCHANGED <<varsMerge, varsResolve, varsProcess, varsManager, varsOther>>

\* ConfigManager.load(): the loop over the sources
ManagerMergeSources ==
    /\ mpc = "start"
    /\ LET r == merge_sources(Dict(<<>>), sources)
       IN  IF Failed(r)
           THEN /\ mpc' = "failed"
                /\ mresult' = r
                /\ UNCHANGED payload
           ELSE /\ mpc' = "merged"
                /\ payload' = r.v
                /\ UNCHANGED mresult
    /\ UNCHANGED <<sources, interpolate_env, environ, mresolved, validators, called>>
    /\ UNCHANGED <<varsMerge, varsResolve, varsProcess, varsLoader, varsOther>>

\* ConfigManager.load(): resolved = _resolve_placeholders(payload,
\* self._environ) if self._interpolate_env else deepcopy(payload)
ManagerResolvePlaceholders ==
    /\ mpc = "merged"
    /\ LET r == IF interpolate_env
                THEN _resolve_placeholders(payload, _environ(environ, osEnviron))
                ELSE Ok(payload)
       IN  IF Failed(r)
           THEN /\ mpc' = "failed"
                /\ mresult' = r
                /\ UNCHANGED mresolved
           ELSE /\ mpc' = "resolved"
                /\ mresolved' = r.v
                /\ UNCHANGED mresult
    /\ UNCHANGED <<sources, interpolate_env, environ, payload, validators, called>>
    /\ UNCHANGED <<varsMerge, varsResolve, varsProcess, varsLoader, varsOther>>

\* ConfigManager.load(): view = ConfigView(resolved), the validators, then
\* return view
ManagerReturn ==
    /\ mpc = "resolved"
    /\ LET r == run_validators(validators, 1, View(mresolved), <<>>)
       IN  /\ called' = r.calls
           /\ mresult' = r.outcome
           /\ mpc' = IF Failed(r.outcome) THEN "failed" ELSE "done"
    /\ UNCHANGED <<sources, interpolate_env, environ, payload, mresolved, validators>>
    /\ UNCHANGED <<varsMerge, varsResolve, varsProcess, varsLoader, varsOther>>

NextLoad ==
    \/ LoaderExpandLayers
    \/ LoaderMergeFiles
    \/ LoaderApplyOverrides
    \/ LoaderResolvePlaceholders
    \/ LoaderReturn
    \/ ManagerMergeSources
    \/ ManagerResolvePlaceholders
    \/ ManagerReturn

SpecLoad == InitLoad /\ [][NextLoad]_vars

-----------------------------------------------------------------------------
(* One call of load() on a DirectorySource or an EnvSource *)

MaxEntries == 2

SrcDir == << <<"d">> >>
A_JSON == <<"a", ".", "j", "s", "o", "n">>
A_YML == <<"a", ".", "y", "m", "l">>
B_YML == <<"b", ".", "y", "m", "l">>
C_TXT == <<"c", ".", "t", "x", "t">>
DirectorySource(path, recursive, optional) ==
    [kind |-> "DirectorySource", path |-> path, recursive |-> recursive, optional |-> optional]
EnvSource(prefix, delimiter, infer_types, injected) ==
    [kind |-> "EnvSource", prefix |-> prefix, delimiter |-> delimiter,
     infer_types |-> infer_types, environ |-> injected]

\* A directory with a.json, a.yml, a/b.yml and c.txt, each there or not.
SourcePaths == <<SrcDir \o <<A_JSON>>, SrcDir \o <<A_YML>>,
                 SrcDir \o <<<<"a">>, B_YML>>, SrcDir \o <<C_TXT>>>>
SourceContents ==
    {<<c1, c2, c3, c4>> :
        c1 \in {None, D1(<<"u">>, Num(1)), D2(<<"u">>, Num(1), <<"r">>, Num(1)),
                D1(<<"o">>, D1(<<"l">>, Num(1)))},
        c2 \in {None, D1(<<"u">>, Num(2)), D1(<<"o">>, D1(<<"m">>, Num(2))), Num(0)},
        c3 \in {None, D1(<<"u">>, Num(3))},
        c4 \in {None, Str(<<"x">>)}}

InitDirectorySource ==
    /\ \E recursive, optional \in BOOLEAN : source = DirectorySource(SrcDir, recursive, optional)
    /\ osEnviron = <<>>
    /\ \E cs \in SourceContents, there \in BOOLEAN :
         /\ fsFiles = FilesOf(SourcePaths, cs)
         /\ fsDirs = IF there THEN ParentDirs(FilesOf(SourcePaths, cs)) \cup {SrcDir} ELSE {}
         /\ ~there => fsFiles = {}

\* Environment variable names and values.
P_A == <<"P", "_", "_", "A">>
P_A_B == <<"P", "_", "_", "A", "_", "_", "B">>
P_A_B_C == <<"P", "_", "_", "A", "_", "_", "B", "_", "_", "C">>
P_B == <<"P", "_", "_", "B">>
p_c == <<"p", "_", "_", "c">>
X_A == <<"X", "_", "_", "A">>
EnvNames == {P_A, P_A_B, P_A_B_C, P_B, p_c, X_A}
EnvValues == {<<"7">>, <<"x">>}
TypedValues ==
    {<<"1">>, <<"0">>, <<"t", "r", "u", "e">>, <<"T", "R", "U", "E">>, <<"Y", "e", "s">>,
     <<"o", "n">>, <<"o", "f", "f">>, <<"n", "o">>, <<"f", "a", "l", "s", "e">>,
     <<"1", "2">>, <<"-", "1", "2">>, <<"-">>, <<"1", ".", "5">>, <<"-", "1", ".", "5">>,
     <<"1", "e", "2">>, <<"a", "b", "c">>, <<>>, <<" ", "7">>, <<"+", "5">>,
     <<"i", "n", "f">>, <<"0", "1">>, <<"-", "0">>, <<"1", ".">>, <<".">>, <<"e", "5">>,
     <<"t", "r", "u">>, <<"1", "0">>, <<"-", "1">>, <<"1", "e">>, <<" ", "x", " ">>,
     <<" ", "o", "n">>, <<"1", ".", "5", " ">>}

\* The environment mappings: up to MaxEntries variables, or one variable
\* with a value of any type.
EnvMaps ==
    UNION {[names -> EnvValues] : names \in {ns \in SUBSET EnvNames : Cardinality(ns) <= MaxEntries}}
    \cup {P_A :> v : v \in TypedValues}

InitEnvSource ==
    /\ \E prefix \in {<<"P">>, <<"p">>}, infer_types \in BOOLEAN,
          injected \in {None} \cup {Dict(f) : f \in EnvMaps} :
         source = EnvSource(prefix, <<"_", "_">>, infer_types, injected)
    /\ osEnviron \in {<<>>, P_B :> <<"9">>}
    /\ fsDirs = {} /\ fsFiles = {}

InitSources ==
    /\ IdleMerge /\ IdleResolve /\ IdleLoader /\ IdleManager /\ IdleView /\ IdleReload /\ IdleExpand
    /\ IdleAssign
    /\ spc = "start" /\ sresult = None /\ visit = <<>>
    /\ \/ InitDirectorySource
       \/ InitEnvSource

\* The orders in which a mapping with these keys can be iterated.
Orders(ks) == {q \in [1..Cardinality(ks) -> ks] : \A i, j \in DOMAIN q : q[i] = q[j] => i = j}

\* DirectorySource.load()
DirectorySourceLoad ==
    /\ spc = "start" /\ source.kind = "DirectorySource"
    /\ sresult' = DirectorySource_load(source, fsDirs, fsFiles)
    /\ spc' = "done"
    /\ UNCHANGED <<source, visit>>
    /\ UNCHANGED <<varsMerge, varsResolve, varsLoad, varsView, varsReload, varsAssign, varsExpand>>

\* EnvSource.load(), the mapping iterated in one of its orders
EnvSourceLoad ==
    /\ spc = "start" /\ source.kind = "EnvSource"
    /\ \E order \in Orders(DOMAIN EnvSource_env(source, osEnviron)) :
         /\ visit' = order
         /\ sresult' = EnvSource_load(source, osEnviron, order)
    /\ spc' = "done"
    /\ UNCHANGED source
    /\ UNCHANGED <<varsMerge, varsResolve, varsLoad, varsView, varsReload, varsAssign, varsExpand>>

NextSources ==
    \/ DirectorySourceLoad
    \/ EnvSourceLoad

SpecSources == InitSources /\ [][NextSources]_vars

-----------------------------------------------------------------------------
(* ConfigView.get *)

MaxSegments == 2

Seg_x == <<"x">>
Seg_s == <<"s">>

\* The stored values: every type a document or an EnvSource can give.
ViewStrings ==
    {<<"1">>, <<" ", "Y", "e", "s", " ">>, <<"o", "f", "f">>, <<"T", "R", "U", "E">>,
     <<"x">>, <<>>, <<"1", "2">>, <<" ", "-", "7">>, <<"+", "5">>, <<"1", ".", "5">>,
     <<"-">>, <<"i", "n", "f">>}
ViewFloats == {<<"1", ".", "5">>, <<"-", "2", ".", "0">>, <<"i", "n", "f">>,
               <<"-", "i", "n", "f">>, <<"n", "a", "n">>}
ViewValues ==
    {Str(t) : t \in ViewStrings} \cup {Float(t) : t \in ViewFloats}
    \cup {Num(0), Num(1), Num(12), Bool(TRUE), Bool(FALSE), None,
          List(<<Num(1)>>), List(<<>>), Dict(<<>>), Dict(Seg_x :> Num(1))}

\* The paths: up to MaxSegments segments joined with dots, the empty
\* segment included.
RECURSIVE join_dots(_)
join_dots(ps) ==
    IF ps = <<>> THEN <<>>
    ELSE IF Len(ps) = 1 THEN ps[1]
    ELSE ps[1] \o <<".">> \o join_dots(Tail(ps))
DottedPaths ==
    {join_dots(ps) : ps \in UNION {[1..n -> {Seg_x, Seg_s, <<>>}] : n \in 0..MaxSegments}}

InitView ==
    /\ IdleMerge /\ IdleResolve /\ IdleLoad /\ IdleSources /\ IdleReload /\ IdleAssign /\ IdleExpand
    /\ \E v \in ViewValues : vdata \in {Dict(Seg_x :> v), Dict(Seg_s :> Dict(Seg_x :> v))}
    /\ dotted_path \in DottedPaths
    /\ vdefault \in {None, Num(0)}
    /\ coerce \in {"none", "bool", "int", "float"}
    /\ vpc = "start" /\ vresult = None

\* view.get(dotted_path, default, coerce=coerce)
ViewGet ==
    /\ vpc = "start"
    /\ vresult' = ConfigView_get(vdata, dotted_path, vdefault, coerce)
    /\ vpc' = "done"
    /\ UNCHANGED <<vdata, dotted_path, vdefault, coerce>>
    /\ UNCHANGED <<varsMerge, varsResolve, varsLoad, varsSources, varsReload, varsAssign, varsExpand>>

NextView ==
    \/ ViewGet

SpecView == InitView /\ [][NextView]_vars

-----------------------------------------------------------------------------
(* Repeated calls of load() and reload() *)

MaxCalls == 2
MaxMutations == 1

\* The payloads the caller builds its DictOverlay sources from.
CallerPayloads ==
    {D1(<<"s">>, D1(<<"u">>, Num(1))),
     D2(<<"s">>, D1(<<"u">>, Str(<<"$", "{", "A", ":", "g", "}">>)), <<"x">>, List(<<Num(1)>>)),
     D1(<<"x">>, List(<<D1(<<"u">>, Str(<<"$", "{", "A", "}">>))>>)),
     List(<<Num(1)>>)}

\* The caller's objects: one payload per source.
RECURSIVE BuildAll(_, _, _)
BuildAll(h, trees, acc) ==
    IF trees = <<>> THEN [h |-> h, refs |-> acc]
    ELSE LET r == Build(h, Head(trees))
         IN  BuildAll(r.h, Tail(trees), Append(acc, r.v))

InitReloadManager ==
    /\ layers = <<>> /\ env = None /\ env_var = <<>>
    /\ fsDirs = {} /\ fsFiles = {}
    /\ \E trees \in {<<tr>> : tr \in CallerPayloads}
                    \cup {<<D1(<<"s">>, D1(<<"r">>, Num(3))), tr>> : tr \in CallerPayloads} :
         LET built == BuildAll(<<>>, trees, <<>>)
         IN  /\ rheap = built.h
             /\ sources = [i \in DOMAIN trees |-> DictOverlay(built.refs[i])]
    /\ interpolate_env \in BOOLEAN
    /\ environ = None
    /\ osEnviron \in {<<>>, VarA :> <<"w">>}

InitReloadLoader ==
    /\ sources = <<>> /\ interpolate_env = TRUE /\ environ = None
    /\ rheap = <<>>
    /\ layers = <<BaseDir>> /\ env = None /\ env_var = APP_ENV
    /\ osEnviron \in {<<>>, VarA :> <<"w">>}
    /\ \E content \in {D1(<<"u">>, Num(1)),
                       D2(<<"u">>, Str(<<"$", "{", "A", ":", "-", "g", "}">>),
                          <<"q">>, List(<<Num(1)>>))} :
         fsFiles = {File(BaseDir \o <<S_YML>>, content)}
    /\ fsDirs = {BaseDir}

InitReload ==
    /\ IdleMerge /\ IdleResolve /\ IdleSources /\ IdleView /\ IdleAssign /\ IdleExpand
    /\ overrides = <<>> /\ lpc = "idle" /\ ordered_dirs = <<>> /\ files_loaded = 0
    /\ lmerged = None /\ beforeOverrides = None /\ lresolved = None /\ lresult = None
    /\ mpc = "idle" /\ payload = None /\ mresolved = None /\ mresult = None
    /\ validators = <<>> /\ called = <<>>
    /\ returned = <<>> /\ mutations = 0
    /\ \/ InitReloadManager
       \/ InitReloadLoader

\* What the caller holds after a call: the outcome, the dict of the View,
\* its content at the return, and the content of the inputs at the call.
Returned(call, r, inputs) ==
    [call |-> call, err |-> r.err, name |-> r.name, view |-> r.v,
     content |-> Val(r.h, r.v), inputs |-> inputs]
PayloadContents == [i \in DOMAIN sources |-> Val(rheap, sources[i].payload)]

\* manager.load()
CallLoad ==
    /\ sources # <<>> /\ Len(returned) < MaxCalls
    /\ \E r \in {ConfigManager_load(rheap, sources, interpolate_env,
                                    _environ(environ, osEnviron))} :
           /\ rheap' = r.h
           /\ returned' = Append(returned, Returned("load", r, PayloadContents))
    /\ UNCHANGED mutations
    /\ UNCHANGED <<varsMerge, varsResolve, varsLoad, varsSources, varsView, varsAssign, varsExpand>>

\* manager.reload()
CallReload ==
    /\ sources # <<>> /\ Len(returned) < MaxCalls
    /\ \E r \in {ConfigManager_reload(rheap, sources, interpolate_env,
                                      _environ(environ, osEnviron))} :
           /\ rheap' = r.h
           /\ returned' = Append(returned, Returned("reload", r, PayloadContents))
    /\ UNCHANGED mutations
    /\ UNCHANGED <<varsMerge, varsResolve, varsLoad, varsSources, varsView, varsAssign, varsExpand>>

\* loader.load()
CallLoaderLoad ==
    /\ layers # <<>> /\ Len(returned) < MaxCalls
    /\ \E r \in {LayeredConfigLoader_load(rheap, layers, env, env_var, osEnviron,
                                          fsDirs, fsFiles)} :
           /\ rheap' = r.h
           /\ returned' = Append(returned, Returned("load", r, <<>>))
    /\ UNCHANGED mutations
    /\ UNCHANGED <<varsMerge, varsResolve, varsLoad, varsSources, varsView, varsAssign, varsExpand>>

\* The caller mutates the payload it gave to a DictOverlay, or an object
\* nested in it: d[k] = 0 or del d[k] on a dict, l.append(0) on a list.
MutatePayload ==
    /\ mutations < MaxMutations
    /\ \E i \in DOMAIN sources : \E a \in Reach(rheap, sources[i].payload) :
         IF IsMap(rheap[a])
         THEN \/ rheap' = [rheap EXCEPT ![a] = Dict(Put(rheap[a].m, <<"s">>, Num(0)))]
              \/ \E k \in DOMAIN rheap[a].m :
                   rheap' = [rheap EXCEPT ![a] = Dict(Del(rheap[a].m, k))]
         ELSE rheap' = [rheap EXCEPT ![a] = List(Append(rheap[a].q, Num(0)))]
    /\ mutations' = mutations + 1
    /\ UNCHANGED returned
    /\ UNCHANGED <<varsMerge, varsResolve, varsLoad, varsSources, varsView, varsAssign, varsExpand>>

NextReload ==
    \/ CallLoad
    \/ CallReload
    \/ CallLoaderLoad
    \/ MutatePayload

SpecReload == InitReload /\ [][NextReload]_vars

-----------------------------------------------------------------------------
(* One call of an assignment at a key path *)

MaxKeyPath == 3

Seg_a == <<"a">>
Seg_b == <<"b">>
Seg_a_b == <<"a", "-", "b">>
Alias_a_b == <<"a", "_", "b">>

\* The mappings assigned into.
AssignTargets ==
    {Dict(<<>>),
     D1(Seg_a, Num(5)),
     D1(Seg_a, Str(<<"a", "b">>)),
     D1(Seg_a, List(<<Num(1)>>)),
     D1(Seg_a, D1(Seg_b, Num(1))),
     D1(Seg_a, D2(Seg_a, Num(1), Seg_b, D1(Seg_b, Num(2)))),
     D2(Seg_a, D1(Seg_a, Num(1)), Seg_b, Num(2)),
     D1(Seg_a_b, Num(5)),
     D1(Alias_a_b, D1(Seg_b, Num(1))),
     D2(Seg_a_b, Num(5), Alias_a_b, D1(Seg_b, Num(1))),
     D2(Seg_a_b, D1(Seg_a, Num(1)), Alias_a_b, D1(Seg_b, Num(1)))}
\* The key paths: up to MaxKeyPath segments.
AssignKeyPaths == UNION {[1..n -> {Seg_a, Seg_b, Seg_a_b}] : n \in 0..MaxKeyPath}

InitAssign ==
    /\ IdleMerge /\ IdleResolve /\ IdleLoad /\ IdleSources /\ IdleView /\ IdleReload /\ IdleExpand
    /\ afn \in {"_inject", "_assign", "_assign_dotted"}
    /\ atarget \in AssignTargets
    /\ akeys \in AssignKeyPaths
    /\ afn = "_assign_dotted" => akeys # <<>>
    /\ avalue \in {Num(9), D1(Seg_b, Num(9))}
    /\ apc = "start" /\ aresult = None

\* LayeredConfigLoader._inject(target, key_path, value)
CallInject ==
    /\ apc = "start" /\ afn = "_inject"
    /\ aresult' = _inject(atarget, akeys, avalue)
    /\ apc' = "done"
    /\ UNCHANGED <<afn, atarget, akeys, avalue>>
    /\ UNCHANGED <<varsMerge, varsResolve, varsLoad, varsSources, varsView, varsReload, varsExpand>>

\* sources._assign(target, keys, value)
CallAssign ==
    /\ apc = "start" /\ afn = "_assign"
    /\ aresult' = _assign(atarget, akeys, avalue)
    /\ apc' = "done"
    /\ UNCHANGED <<afn, atarget, akeys, avalue>>
    /\ UNCHANGED <<varsMerge, varsResolve, varsLoad, varsSources, varsView, varsReload, varsExpand>>

\* core._assign_dotted(target, dotted_key, value), the dotted key being the
\* segments joined with dots
CallAssignDotted ==
    /\ apc = "start" /\ afn = "_assign_dotted"
    /\ aresult' = _assign_dotted(atarget, join_dots(akeys), avalue)
    /\ apc' = "done"
    /\ UNCHANGED <<afn, atarget, akeys, avalue>>
    /\ UNCHANGED <<varsMerge, varsResolve, varsLoad, varsSources, varsView, varsReload, varsExpand>>

NextAssign ==
    \/ CallInject
    \/ CallAssign
    \/ CallAssignDotted

SpecAssign == InitAssign /\ [][NextAssign]_vars

-----------------------------------------------------------------------------
(* One call of a placeholder resolver on a tree *)

\* The trees the resolvers are called on: the string leaf in a dict, in a
\* nested dict, and in a list and a dict of a list.
ShapeTree(k, leaf) ==
    IF k = 1 THEN D1(<<"u">>, leaf)
    ELSE IF k = 2 THEN D2(<<"s">>, D1(<<"u">>, leaf), <<"x">>, Num(1))
    ELSE D1(<<"x">>, List(<<leaf, D1(<<"u">>, leaf)>>))
Shapes == 1..3

\* The objects of the tree before the call, and the reference to its root.
InputObjects == Build(<<>>, ShapeTree(xshape, Str(RenderAll(xparts))))

InitExpand ==
    /\ IdleMerge /\ IdleResolve /\ IdleLoad
    /\ IdleSources /\ IdleView /\ IdleReload /\ IdleAssign
    /\ xshape \in Shapes
    /\ \E n \in 0..MaxParts : xparts \in [1..n -> Parts]
    /\ xlookup \in Lookups
    /\ xheap = InputObjects.h
    /\ xdata = InputObjects.v
    /\ xfn = "none"
    /\ xpc = "start"
    /\ xresult = None

\* What the caller holds after the call: the outcome, the tree returned
\* and its content.
ExpandOutcome(r) ==
    [err |-> r.err, name |-> r.name, v |-> r.v,
     content |-> IF Failed(r) THEN None ELSE Val(r.h, r.v)]

\* core.resolve_placeholders(data, env_lookup=lookup)
CallResolvePlaceholders ==
    /\ xpc = "start"
    /\ \E r \in {resolve_placeholders(xheap, xdata, xlookup)} :
           /\ xheap' = r.h
           /\ xresult' = ExpandOutcome(r)
    /\ xfn' = "core"
    /\ xpc' = "done"
    /\ UNCHANGED <<xshape, xparts, xlookup, xdata>>
    /\ UNCHANGED <<varsMerge, varsResolve, varsLoad, varsSources, varsView, varsReload, varsAssign>>

\* manager._resolve_placeholders(data, environ)
CallManagerResolvePlaceholders ==
    /\ xpc = "start"
    /\ \E r \in {manager_resolve_placeholders(xheap, xdata, xlookup)} :
           /\ xheap' = r.h
           /\ xresult' = ExpandOutcome(r)
    /\ xfn' = "manager"
    /\ xpc' = "done"
    /\ UNCHANGED <<xshape, xparts, xlookup, xdata>>
    /\ UNCHANGED <<varsMerge, varsResolve, varsLoad, varsSources, varsView, varsReload, varsAssign>>

NextExpand ==
    \/ CallResolvePlaceholders
    \/ CallManagerResolvePlaceholders

SpecExpand == InitExpand /\ [][NextExpand]_vars

-----------------------------------------------------------------------------
(* Precedence, environment folders, missing configuration: C4, C7, C8 *)

Absent == [t |-> "absent"]

\* The value of a tree at a key path, Absent when the path leaves the tree.
RECURSIVE At(_, _)
At(tr, path) ==
    IF path = <<>> THEN tr
    ELSE IF IsMap(tr) /\ Head(path) \in DOMAIN tr.m THEN At(tr.m[Head(path)], Tail(path))
    ELSE Absent

IsScalar(v) == v.t \in {"int", "str"}
HasDollar(v) == v.t = "str" /\ \E i \in DOMAIN v.s : v.s[i] = "$"

\* A fragment gives a scalar at the path / does not touch the path: a key
\* of the path is missing from a mapping that the path reaches.
GivesScalar(tr, path) == IsScalar(At(tr, path))
Untouched(tr, path) ==
    \E n \in 0..(Len(path) - 1) :
        LET anc == At(tr, SubSeq(path, 1, n))
        IN  IsMap(anc) /\ path[n + 1] \notin DOMAIN anc.m

\* The key paths at which a tree holds a scalar.
RECURSIVE ScalarPaths(_)
ScalarPaths(tr) ==
    IF IsScalar(tr) THEN {<<>>}
    ELSE IF IsMap(tr)
         THEN UNION {{<<k>> \o path : path \in ScalarPaths(tr.m[k])} : k \in DOMAIN tr.m}
         ELSE {}
KeyPaths(frags) == UNION {ScalarPaths(frags[i]) : i \in DOMAIN frags}

\* The value that wins at a path in an ordered list of fragments: that of
\* the last fragment that gives one.
Definers(frags, path) == {i \in DOMAIN frags : GivesScalar(frags[i], path)}
Last(is) == CHOOSE i \in is : \A j \in is : j <= i
LastWriter(frags, path) == At(frags[Last(Definers(frags, path))], path)
\* The claim's case: every fragment gives a scalar or does not touch the
\* path, and one gives a scalar.
Precedes(frags, path) ==
    /\ \A i \in DOMAIN frags : GivesScalar(frags[i], path) \/ Untouched(frags[i], path)
    /\ Definers(frags, path) # {}

\* A tree with one value at one key path.
RECURSIVE Nest(_, _)
Nest(path, v) == IF path = <<>> THEN v ELSE Dict(Head(path) :> Nest(Tail(path), v))

EndsWith(name, ext) == Len(name) > Len(ext) /\ HasAt(name, Len(name) - Len(ext) + 1, ext)
IsConfigFile(f) == \E ext \in {YML, YAML, JSON, TOML} : EndsWith(f.path[Len(f.path)], ext)
FilesUnder(d) == {f \in fsFiles : IsPrefix(d, f.path) /\ f.path # d /\ IsConfigFile(f)}

\* The key path of a file under a directory: the directories between the
\* two, then the file name without its extension.
KeyPathOf(d, f) ==
    SubSeq(f.path, Len(d) + 1, Len(f.path) - 1) \o <<stem(f.path[Len(f.path)])>>
Comparable(p, q) == IsPrefix(p, q) \/ IsPrefix(q, p)
\* No two files of the directory address the same key path or one inside
\* the other.
Simple(d) ==
    \A f, g \in FilesUnder(d) : Comparable(KeyPathOf(d, f), KeyPathOf(d, g)) => f = g
\* The tree with the given values at the given, incomparable, key paths.
RECURSIVE TreeOf(_)
TreeOf(pairs) ==
    Dict([k \in {Head(pr.path) : pr \in pairs} |->
            LET under == {pr \in pairs : Head(pr.path) = k}
            IN  IF \E pr \in under : Len(pr.path) = 1
                THEN (CHOOSE pr \in under : Len(pr.path) = 1).value
                ELSE TreeOf({[path |-> Tail(pr.path), value |-> pr.value] : pr \in under})])
\* The fragment of a directory: each file's document under its key path.
DirFragment(d) ==
    TreeOf({[path |-> KeyPathOf(d, f), value |-> _load_file(f)] : f \in FilesUnder(d)})

\* The fragments of the manager's sources and of a list of directories.
SourceFragments == [i \in DOMAIN sources |-> sources[i].payload]
DirFragments(dirs) == [i \in DOMAIN dirs |-> DirFragment(dirs[i])]

\* The tree the loader merged from the files, before overrides.
MergedFromFiles == IF lpc = "merged" THEN lmerged ELSE beforeOverrides
LoaderMerged == lpc \in {"merged", "overridden", "resolved", "done"}
    \/ (lpc = "failed" /\ beforeOverrides # None)

\* C4: last writer wins.  ConfigManager: when load returns, every key path
\* that each source's fragment gives a scalar or does not touch holds the
\* value of the last source that gives one.  LayeredConfigLoader: the same
\* for the tree merged from the directories of ordered_dirs, and for the
\* returned View when there are no overrides.
C4_LastWriterWins ==
    /\ mpc = "done" =>
         \A path \in KeyPaths(SourceFragments) :
            (Precedes(SourceFragments, path) /\ ~HasDollar(LastWriter(SourceFragments, path)))
                => At(mresult.v.data, path) = LastWriter(SourceFragments, path)
    /\ (LoaderMerged /\ \A i \in DOMAIN ordered_dirs : Simple(ordered_dirs[i])) =>
         \A path \in KeyPaths(DirFragments(ordered_dirs)) :
            Precedes(DirFragments(ordered_dirs), path)
                => /\ At(MergedFromFiles, path) = LastWriter(DirFragments(ordered_dirs), path)
                   /\ (lpc = "done" /\ overrides = <<>>
                            /\ ~HasDollar(LastWriter(DirFragments(ordered_dirs), path)))
                        => At(lresult.v.data, path) = LastWriter(DirFragments(ordered_dirs), path)

\* A load of the manager in which the last of two sources that give s.u
\* different values won, and s.r given only by the first was retained.
C4_Witness ==
    /\ mpc = "done" /\ Len(sources) = 2
    /\ Precedes(SourceFragments, <<<<"s">>, <<"u">>>>)
    /\ Precedes(SourceFragments, <<<<"s">>, <<"r">>>>)
    /\ Definers(SourceFragments, <<<<"s">>, <<"u">>>>) = {1, 2}
    /\ Definers(SourceFragments, <<<<"s">>, <<"r">>>>) = {1}
    /\ At(sources[1].payload, <<<<"s">>, <<"u">>>>) # At(sources[2].payload, <<<<"s">>, <<"u">>>>)
    /\ At(mresult.v.data, <<<<"s">>, <<"u">>>>) = At(sources[2].payload, <<<<"s">>, <<"u">>>>)
    /\ At(mresult.v.data, <<<<"s">>, <<"r">>>>) = At(sources[1].payload, <<<<"s">>, <<"r">>>>)

\* The environment name load() works with, <<>> when none is active.
ActiveEnv ==
    IF env # None /\ env.s # <<>> THEN env.s
    ELSE IF env_var \in DOMAIN osEnviron THEN osEnviron[env_var]
    ELSE <<>>
ExpectedDirs ==
    IF ActiveEnv = <<>> THEN layers
    ELSE [i \in 1..(2 * Len(layers)) |->
            IF i % 2 = 1 THEN layers[(i + 1) \div 2]
            ELSE layers[i \div 2] \o <<ActiveEnv>>]
LoaderExpanded == lpc \notin {"idle", "start"}

\* C7: once load has expanded the layers, ordered_dirs is L1, L1/env, ...,
\* Ln, Ln/env when an environment name is active and L1..Ln when none is;
\* and with env active, at every key path that Li/env gives a scalar, the
\* merged tree holds that scalar (whatever Li gives) unless a directory of
\* a layer Lj, j > i, gives one, and then it holds the last of those.
C7_EnvironmentFolders ==
    /\ LoaderExpanded => ordered_dirs = ExpectedDirs
    /\ (LoaderMerged /\ ActiveEnv # <<>> /\ \A i \in DOMAIN ExpectedDirs : Simple(ExpectedDirs[i])) =>
         \A i \in DOMAIN layers :
            \A path \in ScalarPaths(DirFragment(layers[i] \o <<ActiveEnv>>)) :
                Precedes(DirFragments(ExpectedDirs), path) =>
                    LET later == {j \in Definers(DirFragments(ExpectedDirs), path) : j > 2 * i}
                    IN  At(MergedFromFiles, path) =
                            IF later = {} THEN At(DirFragment(layers[i] \o <<ActiveEnv>>), path)
                            ELSE At(DirFragment(ExpectedDirs[Last(later)]), path)

\* A load with two layers and the environment named by the designated
\* variable, in which the first layer's environment folder replaced the
\* layer's s.u and the second layer gave only s.r.
C7_Witness ==
    /\ lpc = "done" /\ Len(layers) = 2 /\ env = None /\ ActiveEnv = Prod
    /\ Len(ordered_dirs) = 4
    /\ GivesScalar(DirFragment(layers[1]), <<<<"s">>, <<"u">>>>)
    /\ GivesScalar(DirFragment(layers[1] \o <<Prod>>), <<<<"s">>, <<"u">>>>)
    /\ At(DirFragment(layers[1]), <<<<"s">>, <<"u">>>>)
         # At(DirFragment(layers[1] \o <<Prod>>), <<<<"s">>, <<"u">>>>)
    /\ GivesScalar(DirFragment(layers[2]), <<<<"s">>, <<"r">>>>)
    /\ At(lresult.v.data, <<<<"s">>, <<"u">>>>)
         = At(DirFragment(layers[1] \o <<Prod>>), <<<<"s">>, <<"u">>>>)

NoQualifyingFile == \A i \in DOMAIN ordered_dirs : FilesUnder(ordered_dirs[i]) = {}
LoaderSearched == lpc \notin {"idle", "start", "expanded"}

\* C8: once load has gone through the directories, it has failed with
\* ConfigNotFoundError exactly when no file with a config suffix lies
\* under a directory of ordered_dirs; the error then names ordered_dirs,
\* the overrides were not applied and nothing was resolved or returned.
C8_ConfigNotFound ==
    LoaderSearched =>
        /\ (lpc = "failed" /\ lresult.err = "ConfigNotFoundError") <=> NoQualifyingFile
        /\ NoQualifyingFile =>
              /\ lresult.name = ordered_dirs
              /\ lmerged = None /\ beforeOverrides = None /\ lresolved = None

\* A failed load with overrides, over a directory that exists and holds
\* only a file of another suffix and a directory that does not exist.
C8_Witness ==
    /\ lpc = "failed" /\ lresult.err = "ConfigNotFoundError"
    /\ overrides # <<>>
    /\ \E i, j \in DOMAIN ordered_dirs :
         /\ ordered_dirs[i] \in fsDirs /\ ordered_dirs[j] \notin fsDirs
         /\ \E f \in fsFiles : IsPrefix(ordered_dirs[i], f.path)
    /\ lresult.name = ordered_dirs

-----------------------------------------------------------------------------
(* Missing variables and overrides: C6, C9, C10 *)

\* The strings a tree holds, in mappings and sequences.
RECURSIVE StringLeaves(_)
StringLeaves(tr) ==
    IF tr.t = "str" THEN {tr.s}
    ELSE IF IsMap(tr) THEN UNION {StringLeaves(tr.m[k]) : k \in DOMAIN tr.m}
    ELSE IF IsSeq(tr) THEN UNION {StringLeaves(tr.q[i]) : i \in DOMAIN tr.q}
    ELSE {}

\* The names NAME that a tree holds in a placeholder ${NAME} without
\* fallback and that the lookup lacks.
VariableNames == {<<"A">>, <<"B">>}
MissingNames(tr, lk) ==
    {n \in VariableNames \ DOMAIN lk :
        \E str \in StringLeaves(tr) : IsSubstr(<<"$", "{">> \o n \o <<"}">>, str)}

\* C6: in both pipelines, resolving a merged tree that holds ${NAME}
\* without fallback for a NAME the lookup lacks ends the load with an
\* InterpolationError that names such a NAME, and no View.
C6_MissingVariable ==
    [][/\ (LoaderResolvePlaceholders /\ MissingNames(lmerged, osEnviron) # {}) =>
            /\ lpc' = "failed"
            /\ IsKind(lresult'.err, "InterpolationError")
            /\ lresult'.name \in MissingNames(lmerged, osEnviron)
       /\ (ManagerResolvePlaceholders /\ interpolate_env
             /\ MissingNames(payload, _environ(environ, osEnviron)) # {}) =>
            /\ mpc' = "failed"
            /\ IsKind(mresult'.err, "InterpolationError")
            /\ mresult'.name \in MissingNames(payload, _environ(environ, osEnviron))]_vars

\* The same for ConfigManager alone, and for the loader with the class of
\* the exception left open.
C6_MissingVariableManager ==
    [][(ManagerResolvePlaceholders /\ interpolate_env
          /\ MissingNames(payload, _environ(environ, osEnviron)) # {}) =>
            /\ mpc' = "failed"
            /\ IsKind(mresult'.err, "InterpolationError")
            /\ mresult'.name \in MissingNames(payload, _environ(environ, osEnviron))]_vars
C6_MissingVariableLoader ==
    [][(LoaderResolvePlaceholders /\ MissingNames(lmerged, osEnviron) # {}) =>
            /\ lpc' = "failed"
            /\ lresult'.err = "LiteConfError"
            /\ lresult'.name \in MissingNames(lmerged, osEnviron)]_vars

\* The assignments that overrides ask for when every key is split on "."
\* at every nesting level: the paths and the values that are not mappings.
RECURSIVE Claimed(_, _)
Claimed(its, prefix) ==
    UNION {LET path == prefix \o split(its[i].key)
           IN  IF IsMap(its[i].value) THEN Claimed(items(its[i].value.m), path)
               ELSE {[path |-> path, value |-> its[i].value]}
           : i \in DOMAIN its}

\* The key paths at which a tree holds something that is not a mapping.
RECURSIVE LeafPaths(_)
LeafPaths(tr) ==
    IF IsMap(tr)
    THEN UNION {{<<k>> \o path : path \in LeafPaths(tr.m[k])} : k \in DOMAIN tr.m}
    ELSE {<<>>}

OverridesApplied == lpc \in {"overridden", "resolved", "done"} /\ overrides # <<>>

\* C9: after overrides were applied, every assignment they ask for (keys
\* split on "." at every level, no other assignment at the path, above or
\* below it) is in the merged tree, and every leaf of the tree before the
\* overrides that no assignment addresses has kept its value.
C9_DottedOverrides ==
    OverridesApplied =>
        LET asked == Claimed(overrides, <<>>)
        IN  /\ \A a \in asked :
                    (\A b \in asked : Comparable(a.path, b.path) => a = b)
                        => At(lmerged, a.path) = a.value
            /\ \A path \in LeafPaths(beforeOverrides) :
                    (\A a \in asked : ~Comparable(a.path, path))
                        => At(lmerged, path) = At(beforeOverrides, path)

\* Every entry of the overrides, at every nesting level, with its path.
RECURSIVE Entries(_, _)
Entries(its, prefix) ==
    UNION {LET path == prefix \o split(its[i].key)
           IN  {[path |-> path, value |-> its[i].value]}
               \cup (IF IsMap(its[i].value) THEN Entries(items(its[i].value.m), path) ELSE {})
           : i \in DOMAIN its}
\* A mapping meets a value that is not one, or the converse.
Conflicts(e, tr) == At(tr, e.path) # Absent /\ IsMap(e.value) # IsMap(At(tr, e.path))

\* C10: when the first override has an entry that conflicts in structure
\* with the value the merged tree holds at its path, load fails with a
\* ValidationError and returns no View.
C10_StructuralConflict ==
    (beforeOverrides # None /\ overrides # <<>>
       /\ \E e \in Entries(<<overrides[1]>>, <<>>) : Conflicts(e, beforeOverrides))
        => lpc = "failed" /\ IsKind(lresult.err, "ValidationError")

-----------------------------------------------------------------------------
(* Sources: C11 *)

\* The config files a DirectorySource reads, in path order.
SourceFiles ==
    sorted({f \in (IF source.recursive THEN rglob(fsFiles, source.path)
                   ELSE glob(fsFiles, source.path)) : IsConfigFile(f)})
\* The deep merge, in order, of each file's document under its key path.
RECURSIVE MergedFiles(_, _)
MergedFiles(acc, files) ==
    IF files = <<>> THEN acc
    ELSE MergedFiles(merger_merge(acc, Nest(KeyPathOf(source.path, Head(files)),
                                            _read_file(Head(files)).v)),
                     Tail(files))
DirectoryLoaded == spc = "done" /\ source.kind = "DirectorySource" /\ source.path \in fsDirs

\* C11: the fragment of a DirectorySource whose files all hold mappings is
\* the deep merge, in path-sorted order, of each file's content under its
\* key path; where two files project to the same key path, the keys that
\* only the earlier one defines are kept.
C11_DirectoryDeepMerge ==
    (DirectoryLoaded /\ \A i \in DOMAIN SourceFiles : IsMap(_read_file(SourceFiles[i]).v))
        => /\ ~Failed(sresult)
           /\ sresult.v = MergedFiles(Dict(<<>>), SourceFiles)

\* The same for directories in which no two files address the same key
\* path or one inside the other.
C11_DirectoryDisjoint ==
    (DirectoryLoaded
       /\ \A i, j \in DOMAIN SourceFiles :
            Comparable(KeyPathOf(source.path, SourceFiles[i]),
                       KeyPathOf(source.path, SourceFiles[j])) => i = j)
        => /\ ~Failed(sresult)
           /\ sresult.v = MergedFiles(Dict(<<>>), SourceFiles)

-----------------------------------------------------------------------------
(* Validators: C12 *)

\* load() has built the View and gone through its validators.
Validated == mpc \in {"done", "failed"} /\ mresolved # None
Raisers == {i \in DOMAIN validators : validators[i].raises # "none"}
FirstRaiser == CHOOSE i \in Raisers : \A j \in Raisers : i <= j
\* The validators were called in registration order, each with the View
\* built from the resolved tree, up to the n-th.
CalledUpTo(n) ==
    /\ Len(called) = n
    /\ \A j \in DOMAIN called : called[j] = [validator |-> j, view |-> View(mresolved)]

\* C12 as stated: the first validator that raises any exception stops the
\* run and load fails with a ValidationError carrying its message; with
\* none raising, load returns the View the validators received.
C12_Validators ==
    Validated =>
        IF Raisers = {}
        THEN CalledUpTo(Len(validators)) /\ mpc = "done" /\ mresult = Ok(View(mresolved))
        ELSE /\ CalledUpTo(FirstRaiser) /\ mpc = "failed"
             /\ mresult = Raise("ValidationError", validators[FirstRaiser].message)

\* C12 for what the code catches: the same, with a ValidationError for an
\* exception of class Exception and, for KeyboardInterrupt or SystemExit,
\* that exception itself.
C12_ValidatorsException ==
    Validated =>
        IF Raisers = {}
        THEN CalledUpTo(Len(validators)) /\ mpc = "done" /\ mresult = Ok(View(mresolved))
        ELSE /\ CalledUpTo(FirstRaiser) /\ mpc = "failed"
             /\ mresult = Raise(IF validators[FirstRaiser].raises
                                      \in {"KeyboardInterrupt", "SystemExit"}
                                THEN validators[FirstRaiser].raises
                                ELSE "ValidationError",
                                validators[FirstRaiser].message)

\* A load whose first validator raised KeyError: the second was not called
\* and load failed with a ValidationError carrying the message.
C12_Witness ==
    /\ Validated /\ Len(validators) = 2
    /\ validators[1].raises = "KeyError" /\ validators[2].raises = "none"
    /\ Len(called) = 1 /\ mpc = "failed"
    /\ mresult = Raise("ValidationError", validators[1].message)

-----------------------------------------------------------------------------
(* ConfigView.get: C13 *)

GetReturned == vpc = "done" /\ dotted_path # <<>>
Stored == At(vdata, split(dotted_path))

\* C13: for a non-empty path get does not fail; it returns default when
\* the path does not resolve through mappings, the stored value without
\* coerce, the converted value with coerce, and default when the
\* conversion fails.
C13_GetNeverFails ==
    GetReturned =>
        vresult = Ok(IF Stored = Absent THEN vdefault
                     ELSE IF coerce = "none" THEN Stored
                     ELSE IF Failed(coerce_call(coerce, Stored)) THEN vdefault
                     ELSE coerce_call(coerce, Stored).v)

\* The same holds whenever the conversion does not fail with an exception
\* other than TypeError and ValueError.
Caught ==
    (Stored # Absent /\ coerce # "none")
        => coerce_call(coerce, Stored).err \in {"none", "TypeError", "ValueError"}
C13_GetCaught ==
    (GetReturned /\ Caught)
    => vresult = Ok(IF Stored = Absent THEN vdefault
                    ELSE IF coerce = "none" THEN Stored
                    ELSE IF Failed(coerce_call(coerce, Stored)) THEN vdefault
                    ELSE coerce_call(coerce, Stored).v)

-----------------------------------------------------------------------------
(* EnvSource type inference: C14 *)

\* An EnvSource has loaded a mapping in which P__A is the only variable.
OneValueLoaded ==
    /\ spc = "done" /\ source.kind = "EnvSource"
    /\ DOMAIN EnvSource_env(source, osEnviron) = {P_A}
RawValue == EnvSource_env(source, osEnviron)[P_A]
IsInteger(txt) == isdigit(txt) \/ (txt # <<>> /\ Head(txt) = "-" /\ isdigit(Tail(txt)))
\* The claimed order applied to txt: boolean token, integer, float, and
\* else the raw string; the float is that of the raw value.
Classified(raw, txt) ==
    IF lower(txt) \in {<<"1">>, <<"t", "r", "u", "e">>, <<"y", "e", "s">>, <<"o", "n">>}
    THEN Bool(TRUE)
    ELSE IF lower(txt) \in {<<"0">>, <<"f", "a", "l", "s", "e">>, <<"n", "o">>,
                            <<"o", "f", "f">>}
    THEN Bool(FALSE)
    ELSE IF IsInteger(txt) THEN Num(int(txt))
    ELSE IF IsFloat(strip(raw)) THEN Float(strip(raw))
    ELSE Str(raw)

\* C14 as stated: with infer_types the value itself is classified in the
\* order boolean token, integer, float, raw string; without infer_types
\* it stays the raw string.
C14_TypeInference ==
    OneValueLoaded =>
        sresult = Ok(Dict(<<"a">> :> IF source.infer_types THEN Classified(RawValue, RawValue)
                                     ELSE Str(RawValue)))

\* C14 for what the code classifies: the value with surrounding whitespace
\* stripped, in the same order; the raw string that is kept is unstripped.
C14_TypeInferenceStripped ==
    OneValueLoaded =>
        sresult = Ok(Dict(<<"a">> :> IF source.infer_types
                                     THEN Classified(RawValue, strip(RawValue))
                                     ELSE Str(RawValue)))

\* P__A=1 was loaded with infer_types and gave the boolean true.
C14_Witness ==
    /\ OneValueLoaded /\ source.infer_types /\ RawValue = <<"1">>
    /\ sresult = Ok(Dict(<<"a">> :> Bool(TRUE)))

-----------------------------------------------------------------------------
(* No state between runs: C15 *)

\* The objects of the View a call returned
ViewObjects(i) == Reach(rheap, returned[i].view)
CallerObjects == UNION {Reach(rheap, sources[i].payload) : i \in DOMAIN sources}

\* C15: calls made on equal inputs have equal outcomes and equal content,
\* load or reload alike; the content of every View returned is still what
\* it was at its return; the View of a call shares no object with the
\* View of another call or with a payload of the caller.
C15_NoSharedState ==
    /\ \A i, j \in DOMAIN returned :
         returned[i].inputs = returned[j].inputs
             => /\ returned[i].err = returned[j].err
                /\ returned[i].name = returned[j].name
                /\ returned[i].content = returned[j].content
    /\ \A i \in DOMAIN returned :
         /\ Val(rheap, returned[i].view) = returned[i].content
         /\ ViewObjects(i) \cap CallerObjects = {}
         /\ \A j \in DOMAIN returned : i # j => ViewObjects(i) \cap ViewObjects(j) = {}

\* A load, a mutation of the payload, then a reload: the two calls
\* succeeded, the second View has other content than the first.
C15_Witness ==
    /\ Len(returned) = 2 /\ mutations = 1
    /\ returned[1].call = "load" /\ returned[2].call = "reload"
    /\ returned[1].err = "none" /\ returned[2].err = "none"
    /\ returned[1].content # returned[2].content
    /\ ViewObjects(1) # {} /\ ViewObjects(2) # {}

-----------------------------------------------------------------------------
(* The phases of LayeredConfigLoader.load: C16 *)

\* The steps from one phase to the next, and the failures.
PhaseSteps ==
    {<<"start", "expanded">>, <<"expanded", "merged">>, <<"merged", "overridden">>,
     <<"overridden", "resolved">>, <<"resolved", "done">>,
     <<"start", "failed">>, <<"expanded", "failed">>, <<"merged", "failed">>,
     <<"overridden", "failed">>}
\* The strings of the documents and of the override values.
FileStrings == UNION {StringLeaves(f.content) : f \in fsFiles}
OverrideStrings == UNION {StringLeaves(overrides[i].value) : i \in DOMAIN overrides}
\* A leaf after expansion: a string through the pattern, any other value
\* as it is.
Expanded(v) == IF v.t = "str" THEN core_resolve_str(v.s, osEnviron).v ELSE v

\* C16: load goes through its phases in the order expand, merge, override,
\* resolve, wrap, one step each; the strings of the tree are those of the
\* documents and overrides until the resolve step; that step fails exactly
\* when the tree after the overrides holds ${NAME} for an unset NAME, and
\* otherwise expands every string leaf of that tree, those that came from
\* overrides included.
C16_PhaseOrder ==
    [][/\ lpc' # lpc => <<lpc, lpc'>> \in PhaseSteps
       /\ lpc' \in {"expanded", "merged", "overridden"} => lresolved' = None
       /\ lpc' = "merged" => StringLeaves(lmerged') \subseteq FileStrings
       /\ lpc' = "overridden" =>
              StringLeaves(lmerged') \subseteq FileStrings \cup OverrideStrings
       /\ (lpc = "overridden" /\ lpc' # lpc) =>
              IF MissingNames(lmerged, osEnviron) # {}
              THEN lpc' = "failed" /\ lresult'.name \in MissingNames(lmerged, osEnviron)
              ELSE /\ lpc' = "resolved"
                   /\ LeafPaths(lresolved') = LeafPaths(lmerged)
                   /\ \A path \in LeafPaths(lmerged) :
                        At(lresolved', path) = Expanded(At(lmerged, path))
       /\ lpc' = "done" => lresult' = Ok(View(lresolved))]_vars

\* A load that returned although a document holds ${NAME} for an unset
\* NAME: a later layer or an override replaced the string.
C16_Witness ==
    /\ lpc = "done"
    /\ \E f \in fsFiles : MissingNames(f.content, osEnviron) # {}
    /\ MissingNames(lmerged, osEnviron) = {}

-----------------------------------------------------------------------------
(* Assignment at a key path: C17 *)

\* The prefixes of the key path that end before its last segment.
Intermediates == {SubSeq(akeys, 1, n) : n \in 1..(Len(akeys) - 1)}
\* An intermediate segment exists in the target and is not a mapping.
Blocked == \E p \in Intermediates : At(atarget, p) # Absent /\ ~IsMap(At(atarget, p))
Assigned == apc = "done" /\ akeys # <<>>

\* C17: an assignment whose key path has an intermediate segment that
\* exists as a non-mapping fails and leaves the target as it was; any
\* other assignment succeeds, and then every intermediate segment holds a
\* mapping that has kept the entries off the key path that it had.
C17_NoSilentOverwrite ==
    Assigned =>
        IF Blocked
        THEN Failed(aresult) /\ aresult.v = atarget
        ELSE /\ ~Failed(aresult)
             /\ \A p \in Intermediates : IsMap(At(aresult.v, p))
             /\ \A path \in LeafPaths(atarget) :
                    ~Comparable(path, akeys) => At(aresult.v, path) = At(atarget, path)

\* The same for _inject and _assign alone.
C17_NoSilentOverwriteFiles ==
    (Assigned /\ afn # "_assign_dotted") =>
        IF Blocked
        THEN Failed(aresult) /\ aresult.v = atarget
        ELSE /\ ~Failed(aresult)
             /\ \A p \in Intermediates : IsMap(At(aresult.v, p))
             /\ \A path \in LeafPaths(atarget) :
                    ~Comparable(path, akeys) => At(aresult.v, path) = At(atarget, path)

-----------------------------------------------------------------------------
(* EnvSource and the order of the environment: C18 *)

EnvLoaded == spc = "done" /\ source.kind = "EnvSource"
\* The outcome of a load: the exception, or the fragment.
Outcome(r) == IF Failed(r) THEN [err |-> r.err, v |-> None] ELSE [err |-> "none", v |-> r.v]
\* Both fail or both give the same fragment.
SameOutcome(r1, r2) == Failed(r1) = Failed(r2) /\ (~Failed(r1) => r1.v = r2.v)

\* C18: whatever order the environment mapping is visited in, load gives
\* the outcome it gave in the order it was visited in: the same fragment,
\* or a failure in every order.
C18_OrderIndependent ==
    EnvLoaded =>
        \A order \in Orders(DOMAIN EnvSource_env(source, osEnviron)) :
            SameOutcome(EnvSource_load(source, osEnviron, order), sresult)

\* The same for mappings in which no selected key path is a proper prefix
\* of another.
SelectedPaths ==
    LET env_map == EnvSource_env(source, osEnviron)
        prefix_norm == upper(source.prefix) \o source.delimiter
    IN  {[i \in DOMAIN split_sep(SubSeq(k, Len(prefix_norm) + 1, Len(k)), source.delimiter, <<>>) |->
            lower(split_sep(SubSeq(k, Len(prefix_norm) + 1, Len(k)), source.delimiter, <<>>)[i])] :
         k \in {x \in DOMAIN env_map : HasAt(upper(x), 1, prefix_norm)}}
C18_OrderIndependentDisjoint ==
    (EnvLoaded /\ \A p, q \in SelectedPaths : IsPrefix(p, q) => p = q) =>
        \A order \in Orders(DOMAIN EnvSource_env(source, osEnviron)) :
            EnvSource_load(source, osEnviron, order) = sresult

-----------------------------------------------------------------------------
(* An injected environment: C19 *)

\* The outcome of EnvSource.load when the injected mapping is read and
\* nothing else: for the empty mapping, the empty fragment.
IsolatedLoad ==
    IF DOMAIN source.environ.m = {} THEN sresult = Ok(Dict(<<>>))
    ELSE \E order \in Orders(DOMAIN source.environ.m) :
            sresult = assign_entries(Dict(<<>>), source, source.environ.m, order)

\* C19 for EnvSource: with an injected mapping, the empty one included,
\* load gives what the injected mapping alone gives, whatever the process
\* environment holds.
C19_InjectedIsolates ==
    (EnvLoaded /\ source.environ # None) => IsolatedLoad

\* The same for an injected mapping that is not empty.
C19_InjectedNonEmpty ==
    (EnvLoaded /\ source.environ # None /\ DOMAIN source.environ.m # {}) => IsolatedLoad

\* C19 for ConfigManager: with an injected mapping, the resolution is that
\* of the payload against the injected mapping.
C19_InjectedIsolatesManager ==
    (mpc \in {"resolved", "done"} /\ interpolate_env /\ environ # None)
        => Ok(mresolved) = _resolve_placeholders(payload, environ.m)

-----------------------------------------------------------------------------
(* Placeholder resolution: C5 *)

\* What a part stands for once resolved: its own text for a literal, the
\* lookup value for a placeholder whose name is in the lookup, else the
\* fallback text.
ExpectedPart(part, env_lookup) ==
    IF part.p = "lit" THEN part.s
    ELSE IF part.name \in DOMAIN env_lookup THEN env_lookup[part.name]
    ELSE part.fb
RECURSIVE ExpectedAll(_, _)
ExpectedAll(ps, env_lookup) ==
    IF ps = <<>> THEN <<>> ELSE ExpectedPart(Head(ps), env_lookup) \o ExpectedAll(Tail(ps), env_lookup)

\* Every placeholder of the parts has its name in the lookup or a fallback.
Resolvable(ps, env_lookup) ==
    \A i \in DOMAIN ps : ps[i].p = "ph" => (ps[i].name \in DOMAIN env_lookup \/ ps[i].hasfb)

\* C5: with either resolver, a string whose placeholders all have a lookup
\* value or a fallback resolves to its literal text unchanged, each
\* ${NAME} and ${NAME:-fallback} replaced by the lookup value when NAME is
\* in the lookup (also when it is empty or a fallback is present) and else
\* by exactly the fallback text.
C5_Resolution ==
    (rpc = "done" /\ Resolvable(parts, lookup)) =>
        /\ ~Failed(resolved)
        /\ resolved.v = Str(ExpectedAll(parts, lookup))

\* C5 restricted to core.resolve_placeholders.
C5_ResolutionCore ==
    (rpc = "done" /\ resolver = "core" /\ Resolvable(parts, lookup)) =>
        /\ ~Failed(resolved)
        /\ resolved.v = Str(ExpectedAll(parts, lookup))

-----------------------------------------------------------------------------
(* Single-pass expansion: C20 *)

\* The text a part is replaced by, taken verbatim: the lookup value, else
\* the text after the separator of the resolver's pattern.
VerbatimPart(part, env_lookup, fn) ==
    IF part.p = "lit" THEN part.s
    ELSE IF part.name \in DOMAIN env_lookup THEN env_lookup[part.name]
    ELSE IF fn = "manager" THEN <<"-">> \o part.fb
    ELSE part.fb
RECURSIVE VerbatimAll(_, _, _)
VerbatimAll(ps, env_lookup, fn) ==
    IF ps = <<>> THEN <<>>
    ELSE VerbatimPart(Head(ps), env_lookup, fn) \o VerbatimAll(Tail(ps), env_lookup, fn)

\* The objects of the input tree are as they were before the call.
InputUnmodified ==
    /\ Len(xheap) >= Len(InputObjects.h)
    /\ SubSeq(xheap, 1, Len(InputObjects.h)) = InputObjects.h
    /\ Val(xheap, xdata) = ShapeTree(xshape, Str(RenderAll(xparts)))

\* The call has returned the tree in which each string leaf has each
\* placeholder replaced once by its replacement text taken verbatim, or
\* has raised because a placeholder has neither lookup value nor fallback;
\* the objects of the input tree are as they were.
SinglePass ==
    xpc = "done" =>
        /\ InputUnmodified
        /\ Failed(xresult) = ~Resolvable(xparts, xlookup)
        /\ ~Failed(xresult) =>
              xresult.content
                  = ShapeTree(xshape, Str(VerbatimAll(xparts, xlookup, xfn)))

\* A call of either resolver on the tree has an outcome: it returns or it
\* raises the resolver's exception.
Ends ==
    xpc = "start" =>
        /\ resolve_placeholders(xheap, xdata, xlookup).err \in {"none", "LiteConfError"}
        /\ manager_resolve_placeholders(xheap, xdata, xlookup).err
               \in {"none", "InterpolationError"}

\* C20: a call of either resolver on a tree, with any lookup, ends, and
\* what it returns is the single pass: each placeholder of each string
\* leaf replaced once by its replacement text taken verbatim, also when
\* that text holds placeholder syntax or names its own variable; the
\* objects of the input tree are left as they were.
C20_SinglePass == Ends /\ SinglePass

\* A resolver returned for a tree whose leaf ${B0} has the lookup value
\* ${A}, A itself in the lookup: the leaf of the result is the text ${A}.
C20_Witness ==
    /\ xpc = "done"
    /\ xshape = 3
    /\ xparts = <<Placeholder(<<"B", "0">>)>>
    /\ <<"A">> \in DOMAIN xlookup
    /\ <<"B", "0">> \in DOMAIN xlookup
    /\ xlookup[<<"B", "0">>] = <<"$", "{", "A", "}">>
    /\ xresult.content = ShapeTree(3, Str(<<"$", "{", "A", "}">>))

-----------------------------------------------------------------------------
(* Deep merge: C1, C2, C3 *)

\* The merge rule on trees, as a relation between result, base and overlay.
RECURSIVE MergedByRule(_, _, _)
MergedByRule(r, b, o) ==
    /\ IsMap(r)
    /\ DOMAIN r.m = (DOMAIN b.m) \cup (DOMAIN o.m)
    /\ \A k \in (DOMAIN b.m) \ (DOMAIN o.m) : r.m[k] = b.m[k]
    /\ \A k \in DOMAIN o.m :
         IF k \in DOMAIN b.m /\ IsMap(b.m[k]) /\ IsMap(o.m[k])
         THEN MergedByRule(r.m[k], b.m[k], o.m[k])
         ELSE r.m[k] = o.m[k]

\* C1: whichever deep_merge is called, the returned tree has the union of
\* the keys, keeps base's value at a key only base has, is the recursive
\* merge at a key where both hold mappings, and holds overlay's value
\* wholesale at every other key of overlay.
C1_MergeRule ==
    pc = "merged" => MergedByRule(mergedAtReturn, baseBefore, overlayBefore)

\* C1 witness: core.deep_merge returned where one key held mappings on both
\* sides with different keys inside and another key held a mapping in base
\* and a sequence in overlay.
C1_Witness ==
    /\ pc = "merged" /\ impl = "core"
    /\ \E k1, k2 \in (DOMAIN baseBefore.m) \cap (DOMAIN overlayBefore.m) :
         /\ IsMap(baseBefore.m[k1]) /\ IsMap(overlayBefore.m[k1])
         /\ overlayBefore.m[k1].m # <<>>
         /\ baseBefore.m[k1] # overlayBefore.m[k1]
         /\ IsMap(baseBefore.m[k2]) /\ IsSeq(overlayBefore.m[k2])

\* C2 as claimed: after either deep_merge, base and overlay hold what they
\* held before the call and the returned object is neither of them.
C2_PureBoth ==
    pc = "merged" =>
        /\ Val(heap, base) = baseBefore
        /\ Val(heap, overlay) = overlayBefore
        /\ merged # base
        /\ merged # overlay

\* C2 amended: merger.deep_merge leaves base and overlay as they were and
\* returns an object that shares nothing with either; core.deep_merge
\* leaves overlay as it was, updates base in place and returns base.
C2_Pure ==
    pc = "merged" =>
        /\ Val(heap, overlay) = overlayBefore
        /\ merged # overlay
        /\ impl = "merger" =>
              /\ Val(heap, base) = baseBefore
              /\ Reach(heap, merged) \cap (Reach(heap, base) \cup Reach(heap, overlay)) = {}
        /\ impl = "core" =>
              /\ merged = base
              /\ Val(heap, base) = mergedAtReturn

\* C2 witness: merger.deep_merge returned a tree that differs from base.
C2_Witness ==
    /\ pc = "merged" /\ impl = "merger"
    /\ mergedAtReturn # baseBefore
    /\ \E k \in DOMAIN baseBefore.m : IsMap(baseBefore.m[k]) /\ mergedAtReturn.m[k] # baseBefore.m[k]

\* C3: once deep_merge has returned, a mutation of the overlay object or of
\* an object nested in it leaves the merged tree as it was returned, and the
\* merged tree shares no object with overlay.
C3_DefensiveCopy ==
    pc \in {"merged", "mutated"} =>
        /\ Val(heap, merged) = mergedAtReturn
        /\ Reach(heap, merged) \cap Reach(heap, overlay) = {}

\* C3 witness: after a merge that recursed at key k, the mapping nested in
\* overlay at k was mutated (the overlay's own keys are as before).
C3_Witness ==
    /\ pc = "mutated"
    /\ \E k \in DOMAIN overlayBefore.m :
         /\ k \in DOMAIN baseBefore.m
         /\ IsMap(baseBefore.m[k]) /\ IsMap(overlayBefore.m[k])
         /\ k \in DOMAIN Val(heap, overlay).m
         /\ Val(heap, overlay).m[k] # overlayBefore.m[k]

====
